---- MODULE Spec2Model ----
(***************************************************************************)
(* Model of the quiz generator's LLM orchestration                         *)
(* (src/src/services/quizGenerator.ts): the process-wide concurrency gate  *)
(* (acquire / release / withConcurrencyLimit), the shared llmStats         *)
(* counters and the generateQuiz retry / rotation / fallback loop.         *)
(*                                                                         *)
(* The runtime is single-threaded: code between two awaits runs without    *)
(* interruption.  Every action below is therefore one such run: it starts  *)
(* where a promise settles (a provider answers, a timer fires, a waiter is *)
(* resumed) and runs to the next await of the same call.                   *)
(***************************************************************************)
EXTENDS Integers, Sequences, FiniteSets, TLC

(***************************************************************************)
(* Program constants (quizGenerator.ts:12-24, defaults of the env knobs).  *)
(***************************************************************************)
MAX_RETRIES == 3
INITIAL_RETRY_DELAY_MS == 2000
GENERATION_TIMEOUT_MS == 25000
MAX_GEMINI_RETRY_DELAY_MS == 7000
MAX_GEMINI_TOTAL_TIME_MS == 35000

(***************************************************************************)
(* Bounds of the model.                                                    *)
(***************************************************************************)
\* withConcurrencyLimit callers in the gate-only specifications
NumCallers == 3
\* largest LLM_MAX_CONCURRENCY the environment may configure
MaxConcurrency == 2
\* largest number of distinct Gemini API keys configured
MaxGeminiKeys == 2
\* number of Gemini model candidates (a prefix of the source's list)
NumGeminiModels == 2
\* number of Groq model candidates (a prefix of the source's list)
NumGroqModels == 2
\* how long a slow Gemini rejection takes in the rate-limit scenario (ms)
SlowAnswerMs == 10000
\* largest number of elements of the arrays given to the parser
MaxElements == 2
\* largest number of complete objects in a truncated "questions" array
MaxObjects == 2

Min(a, b) == IF a < b THEN a ELSE b
Max(a, b) == IF a > b THEN a ELSE b

RECURSIVE Pow2(_)
Pow2(n) == IF n <= 0 THEN 1 ELSE 2 * Pow2(n - 1)

VARIABLES
    env,        \* process.env as read by the generator: keys and knobs
    inFlight,   \* quizGenerator.ts:31
    waiters,    \* quizGenerator.ts:32, the queued resume callbacks (by caller)
    llmStats,   \* quizGenerator.ts:431
    call,       \* per generateQuiz call: position and local variables
    admitOrder, \* history: callers in the order a slot was granted to them
    queueOrder  \* history: callers in the order they were pushed on waiters

vars == <<env, inFlight, waiters, llmStats, call, admitOrder, queueOrder>>

Calls == DOMAIN call

(***************************************************************************)
(* Errors.  A thrown value is a record: status is e.status (0 when the     *)
(* property is absent), message is e.message as the sequence of fragments  *)
(* the code searches for with includes / match, retryIn is the number in   *)
(* a "Please retry in Ns" phrase and retryDelay the number in a            *)
(* retryDelay":"Ns" field (both in milliseconds, -1 when the message has   *)
(* no such phrase), body is e.body as fragments.                           *)
(***************************************************************************)
Err(st, msg, rin, rdl, bd) ==
    [status |-> st, message |-> msg, retryIn |-> rin, retryDelay |-> rdl, body |-> bd]

\* new Error(text): no status, no body
NewError(text) == Err(0, <<text>>, -1, -1, <<>>)

NoError == Err(0, <<>>, -1, -1, <<>>)

\* String.prototype.includes on a message or body, fragment-wise
Includes(text, needle) == \E i \in DOMAIN text : text[i] = needle

\* String.prototype.toLowerCase on the fragments that carry capitals
LowerWord(w) ==
    CASE w = "Quota" -> "quota"
      [] w = "Rate Limit" -> "rate limit"
      [] w = "Permission" -> "permission"
      [] w = "Model" -> "model"
      [] w = "Not Found" -> "not found"
      [] w = "Decommissioned" -> "decommissioned"
      [] w = "Insufficient Content" -> "insufficient content"
      [] w = "Insufficient content" -> "insufficient content"
      [] w = "Response_Format" -> "response_format"
      [] OTHER -> w

ToLowerCase(text) == [i \in DOMAIN text |-> LowerWord(text[i])]

(***************************************************************************)
(* What a provider call can settle with: a response carrying a text, a     *)
(* rejection carrying an error, or (Gemini only) the generator's timer.    *)
(***************************************************************************)
Text(raw) == [kind |-> "text", text |-> raw, error |-> NoError]
Reject(e) == [kind |-> "reject", text |-> "", error |-> e]
TimedOut == [kind |-> "timeout", text |-> "", error |-> NoError]
NoAnswer == [kind |-> "none", text |-> "", error |-> NoError]

(***************************************************************************)
(* What the Gemini SDK call can reject with (besides the generator's own   *)
(* timeout): the upstream failures the classification tells apart.         *)
(***************************************************************************)
GeminiErrors ==
    { Err(429, <<"RESOURCE_EXHAUSTED", "Quota">>, 3500, -1, <<>>),   \* retry in 3.5s
      Err(429, <<"RESOURCE_EXHAUSTED", "Quota">>, -1, 40000, <<>>),  \* retryDelay 40s
      Err(429, <<"Rate Limit">>, -1, -1, <<>>),
      Err(429, <<"Quota", "limit: 0", "FreeTier">>, 3500, -1, <<>>),
      Err(404, <<"models/", "not found">>, -1, -1, <<>>),
      Err(403, <<"Permission">>, -1, -1, <<>>),
      Err(503, <<"UNAVAILABLE">>, -1, -1, <<>>),
      Err(500, <<"INTERNAL">>, -1, -1, <<>>) }

(***************************************************************************)
(* What callDeepSeek / callGroq can throw on a non-2xx answer: the         *)
(* adapters set status and body (quizGenerator.ts:264-276, 341-353).       *)
(***************************************************************************)
AdapterErrors ==
    { Err(400, <<"HTTP_400">>, -1, -1, <<"invalid_request_error">>),
      Err(400, <<"HTTP_400">>, -1, -1, <<"Model", "Not Found">>),
      Err(400, <<"HTTP_400">>, -1, -1, <<"model_decommissioned">>),
      Err(429, <<"HTTP_429">>, -1, -1, <<"Rate Limit">>) }

(***************************************************************************)
(* Provider output texts, and the JSON value the recovery parser yields    *)
(* for each.  A parsed value is described by what generateQuiz inspects:   *)
(* whether it is null, whether it has a questions member, whether that is  *)
(* an array, and its length.                                               *)
(***************************************************************************)
Contents ==
    { "",
      "Insufficient content",
      "not json",
      "null",
      "{}",
      "{\"questions\":1}",
      "{\"questions\":[]}",
      "{\"questions\":[Q1]}" }

JsonValue(nul, has, arr, len) ==
    [isNull |-> nul, hasQuestions |-> has, questionsIsArray |-> arr, questionsLength |-> len]

NoValue == JsonValue(TRUE, FALSE, FALSE, 0)

\* safeJsonParse on the texts above: ok = FALSE is the thrown 'Invalid JSON'
safeJsonParse(raw) ==
    CASE raw = "null" -> [ok |-> TRUE, value |-> JsonValue(TRUE, FALSE, FALSE, 0)]
      [] raw = "{}" -> [ok |-> TRUE, value |-> JsonValue(FALSE, FALSE, FALSE, 0)]
      [] raw = "{\"questions\":1}" -> [ok |-> TRUE, value |-> JsonValue(FALSE, TRUE, FALSE, 0)]
      [] raw = "{\"questions\":[]}" -> [ok |-> TRUE, value |-> JsonValue(FALSE, TRUE, TRUE, 0)]
      [] raw = "{\"questions\":[Q1]}" -> [ok |-> TRUE, value |-> JsonValue(FALSE, TRUE, TRUE, 1)]
      [] OTHER -> [ok |-> FALSE, value |-> NoValue]

\* the body of the 'Invalid JSON' error: cleaned.slice(0, 400)
InvalidJson(raw) == Err(0, <<"Invalid JSON">>, -1, -1, <<raw>>)

(***************************************************************************)
(* The checks generateQuiz makes on a provider's text after the call       *)
(* (lines 516-522, 629-635 and their copies): the result is either the     *)
(* quiz to return or the error thrown inside the try block.                *)
(***************************************************************************)
Thrown(e) == [ok |-> FALSE, quiz |-> NoValue, error |-> e]
Parsed(v) == [ok |-> TRUE, quiz |-> v, error |-> NoError]

\* the checks without the test that questions is an array
CheckQuizDataNoShapeTest(raw) ==
    LET p == safeJsonParse(raw) IN
    IF ~p.ok THEN Thrown(InvalidJson(raw))
    ELSE IF p.value.isNull
        THEN Thrown(NewError("TypeError: Cannot read properties of null"))
    ELSE IF p.value.hasQuestions /\ p.value.questionsIsArray /\ p.value.questionsLength = 0
        THEN Thrown(NewError("Insufficient content"))
    ELSE Parsed(p.value)

CheckQuizData(raw) ==
    LET p == safeJsonParse(raw) IN
    IF ~p.ok THEN Thrown(InvalidJson(raw))
    ELSE IF p.value.isNull
        THEN Thrown(NewError("TypeError: Cannot read properties of null"))
    ELSE IF ~p.value.hasQuestions \/ ~p.value.questionsIsArray
        THEN Thrown(NewError("Invalid JSON structure received from AI"))
    ELSE IF p.value.questionsLength = 0
        THEN Thrown(NewError("Insufficient content"))
    ELSE Parsed(p.value)

\* lines 622-635: the Gemini response text
CheckGeminiText(raw) ==
    IF raw = "" THEN Thrown(NewError("Empty response from Gemini"))
    ELSE IF Includes(ToLowerCase(<<raw>>), "insufficient content")
        THEN Thrown(NewError("Insufficient content"))
    ELSE CheckQuizData(raw)

\* callDeepSeek / callGroq lines 280-283, 357-360, then lines 516-522
CheckAdapterText(raw, provider) ==
    IF raw = "" THEN Thrown(NewError("Empty response from " \o provider))
    ELSE CheckQuizData(raw)

(***************************************************************************)
(* The recovery parser on texts (lines 70-220).  A text is a sequence of   *)
(* one-character strings.  Indices are 1-based; 0 stands for "not found"   *)
(* (indexOf's -1, a failed match).                                         *)
(***************************************************************************)
Quote == "\""
Backslash == "\\"
Newline == "\n"
\* the backquote and the byte-order mark U+FEFF, written as names
Backtick == "BACKQUOTE"
BOM == "U+FEFF"

\* what \s and String.prototype.trim take for white space (U+FEFF included)
WhiteSpace == {" ", Newline, "\t", BOM}

\* the white space of the JSON grammar
JsonWhiteSpace == {" ", Newline, "\t"}

\* [a-zA-Z]
Letters ==
    { "a", "b", "c", "d", "e", "f", "g", "h", "i", "j", "k", "l", "m",
      "n", "o", "p", "q", "r", "s", "t", "u", "v", "w", "x", "y", "z",
      "A", "B", "C", "D", "E", "F", "G", "H", "I", "J", "K", "L", "M",
      "N", "O", "P", "Q", "R", "S", "T", "U", "V", "W", "X", "Y", "Z" }

Digits == {"0", "1", "2", "3", "4", "5", "6", "7", "8", "9"}

MinOf(S) == CHOOSE x \in S : \A y \in S : x <= y
MaxOf(S) == CHOOSE x \in S : \A y \in S : x >= y

\* s.slice(from - 1, to) in 1-based inclusive positions
Slice(s, from, to) == SubSeq(s, from, to)

\* s.indexOf(ch, from - 1), 1-based
IndexOfFrom(s, ch, from) ==
    LET I == {i \in from .. Len(s) : s[i] = ch} IN IF I = {} THEN 0 ELSE MinOf(I)

\* s.indexOf(ch)
IndexOf(s, ch) == IndexOfFrom(s, ch, 1)

\* s.lastIndexOf(ch)
LastIndexOf(s, ch) ==
    LET I == {i \in 1 .. Len(s) : s[i] = ch} IN IF I = {} THEN 0 ELSE MaxOf(I)

\* the text at position i starts with p
StartsWithAt(s, i, p) ==
    i >= 1 /\ i + Len(p) - 1 <= Len(s) /\ SubSeq(s, i, i + Len(p) - 1) = p

\* s.startsWith(p)
StartsWith(s, p) == StartsWithAt(s, 1, p)

\* the last position of the longest run of characters of set C that starts
\* at position from (from - 1 when the run is empty): a greedy C*
SpanEnd(s, from, C) ==
    LET stop == {i \in from .. Len(s) : s[i] \notin C}
    IN  IF stop = {} THEN Len(s) ELSE MinOf(stop) - 1

\* s.trim()
Trim(s) ==
    LET keep == {i \in 1 .. Len(s) : s[i] \notin WhiteSpace}
    IN  IF keep = {} THEN <<>> ELSE SubSeq(s, MinOf(keep), MaxOf(keep))

Fence == <<Backtick, Backtick, Backtick>>

\* s.replace(/^FENCE[a-zA-Z]*\s*/m, '') on a text that starts with the fence:
\* the leftmost match is the one at the start of the text
StripOpeningFence(s) ==
    LET afterLetters == SpanEnd(s, Len(Fence) + 1, Letters)
        afterSpace == SpanEnd(s, afterLetters + 1, WhiteSpace)
    IN  SubSeq(s, afterSpace + 1, Len(s))

\* the positions at which /FENCE\s*$/m can end a match that starts at i: after
\* the fence and a run of white space, at the end of a line or of the text
ClosingFenceEnds(s, i) ==
    { j \in i + Len(Fence) .. Len(s) + 1 :
        /\ \A k \in i + Len(Fence) .. j - 1 : s[k] \in WhiteSpace
        /\ (j = Len(s) + 1 \/ s[j] = Newline) }

\* s.replace(/FENCE\s*$/m, ''): the leftmost match, its \s* as long as possible
StripClosingFence(s) ==
    LET starts == {i \in 1 .. Len(s) : StartsWithAt(s, i, Fence) /\ ClosingFenceEnds(s, i) # {}}
    IN  IF starts = {} THEN s
        ELSE LET i == MinOf(starts)
                 j == MaxOf(ClosingFenceEnds(s, i))
             IN  SubSeq(s, 1, i - 1) \o SubSeq(s, j, Len(s))

\* the first position from i on that holds a character of set C, or
\* Len(s) + 1: the loop passes over the other characters unchanged
NextOf(s, i, C) ==
    LET hits == {k \in i .. Len(s) : s[k] \in C}
    IN  IF hits = {} THEN Len(s) + 1 ELSE MinOf(hits)

\* a scanning loop blind to string literals: every character is structural
RECURSIVE ScanBalancedNoStrings(_, _, _, _, _, _, _)
ScanBalancedNoStrings(s, i, depth, inStr, esc, openChar, closeChar) ==
    IF i > Len(s) THEN 0
    ELSE LET d == depth + (IF s[i] = openChar THEN 1 ELSE 0)
                        - (IF s[i] = closeChar THEN 1 ELSE 0)
         IN  IF d = 0 THEN i
             ELSE ScanBalancedNoStrings(s, NextOf(s, i + 1, {openChar, closeChar}), d,
                                        FALSE, FALSE, openChar, closeChar)

\* the scanning loop of lines 98-126 and 166-200, from position i with the
\* loop variables depth, inStr and esc: the position at which depth returns
\* to 0, or 0 when the text ends first
RECURSIVE ScanBalanced(_, _, _, _, _, _, _)
ScanBalanced(s, i, depth, inStr, esc, openChar, closeChar) ==
    IF i > Len(s) THEN 0
    ELSE LET ch == s[i] IN
         IF inStr
         THEN IF esc THEN ScanBalanced(s, i + 1, depth, TRUE, FALSE, openChar, closeChar)
              ELSE IF ch = Backslash
                   THEN ScanBalanced(s, i + 1, depth, TRUE, TRUE, openChar, closeChar)
              ELSE IF ch = Quote
                   THEN ScanBalanced(s, i + 1, depth, FALSE, FALSE, openChar, closeChar)
              ELSE ScanBalanced(s, NextOf(s, i + 1, {Quote, Backslash}), depth, TRUE, FALSE,
                                openChar, closeChar)
         ELSE IF ch = Quote
              THEN ScanBalanced(s, i + 1, depth, TRUE, FALSE, openChar, closeChar)
         ELSE LET d == depth + (IF ch = openChar THEN 1 ELSE 0)
                             - (IF ch = closeChar THEN 1 ELSE 0)
              IN  IF d = 0 THEN i
                  ELSE IF ch \in {openChar, closeChar}
                       THEN ScanBalanced(s, i + 1, d, FALSE, FALSE, openChar, closeChar)
                  ELSE ScanBalanced(s, NextOf(s, i + 1, {Quote, openChar, closeChar}), d,
                                    FALSE, FALSE, openChar, closeChar)

NotFound == [found |-> FALSE, text |-> <<>>]
Found(t) == [found |-> TRUE, text |-> t]

\* lines 86-90: the position of the first '{' or '['
FirstOpener(input) ==
    LET startObj == IndexOf(input, "{")
        startArr == IndexOf(input, "[")
    IN  IF startObj = 0 THEN startArr
        ELSE IF startArr = 0 THEN startObj
        ELSE Min(startObj, startArr)

\* extractFirstBalancedJson, lines 85-128 (null is NotFound)
extractFirstBalancedJson(input) ==
    LET start == FirstOpener(input) IN
    IF start = 0 THEN NotFound
    ELSE LET openChar == input[start]
             closeChar == IF openChar = "{" THEN "}" ELSE "]"
             end == ScanBalanced(input, start, 0, FALSE, FALSE, openChar, closeChar)
         IN  IF end = 0 THEN NotFound ELSE Found(Slice(input, start, end))

\* position k of s lies in a match of /,\s*([}\]])/ before its closer: a
\* comma, or white space after one, with only white space up to a closer
InTrailingComma(s, k) ==
    LET j == SpanEnd(s, k + 1, WhiteSpace) + 1 IN
    /\ s[k] \in {","} \cup WhiteSpace
    /\ j <= Len(s) /\ s[j] \in {"}", "]"}
    /\ \E i \in 1 .. k : s[i] = "," /\ \A m \in (i + 1) .. k : s[m] \in WhiteSpace

\* the characters of s[lo..hi] that the replacement keeps
RECURSIVE KeptChars(_, _, _)
KeptChars(s, lo, hi) ==
    IF lo > hi THEN <<>>
    ELSE IF lo = hi THEN (IF InTrailingComma(s, lo) THEN <<>> ELSE <<s[lo]>>)
    ELSE LET mid == (lo + hi) \div 2
         IN  KeptChars(s, lo, mid) \o KeptChars(s, mid + 1, hi)

\* s.replace(/,\s*([}\]])/g, '$1'), line 142
RemoveTrailingCommas(s) == KeptChars(s, 1, Len(s))

\* lines 71-83: trim, byte-order mark, code fences
Unwrap(raw) ==
    LET s0 == Trim(raw)
        s1 == IF s0 # <<>> /\ s0[1] = BOM THEN Trim(Tail(s0)) ELSE s0
    IN  IF StartsWith(s1, Fence)
        THEN Trim(StripClosingFence(StripOpeningFence(s1)))
        ELSE s1

\* sanitizeJsonString, lines 70-144
sanitizeJsonString(raw) ==
    IF Trim(raw) = <<>> THEN <<>>
    ELSE LET s == Unwrap(raw)
             balanced == extractFirstBalancedJson(s)
             start == IndexOf(s, "{")
             end == LastIndexOf(s, "}")
             body == IF balanced.found /\ balanced.text # <<>> THEN balanced.text
                     ELSE IF start >= 1 /\ end > start THEN Slice(s, start, end)
                     ELSE s
         IN  RemoveTrailingCommas(body)

(***************************************************************************)
(* JSON.parse on texts.  A value is [t, s, e]: t its type, s the           *)
(* characters of a string, number or literal, e the elements of an array   *)
(* or, for an object, its keys (as strings) and values in turn.            *)
(***************************************************************************)
Str(chars) == [t |-> "str", s |-> chars, e |-> <<>>]
Num(digits) == [t |-> "num", s |-> digits, e |-> <<>>]
Lit(name) == [t |-> "lit", s |-> name, e |-> <<>>]
Arr(elems) == [t |-> "arr", s |-> <<>>, e |-> elems]
Obj(members) == [t |-> "obj", s |-> <<>>, e |-> members]

Undefined == [t |-> "undefined", s |-> <<>>, e |-> <<>>]

ParseFail == [ok |-> FALSE, v |-> Undefined, next |-> 0]
ParseOk(value, n) == [ok |-> TRUE, v |-> value, next |-> n]

\* the position of the first character at or after i that is not white space
SkipWs(s, i) == SpanEnd(s, i, JsonWhiteSpace) + 1

\* the character an escape sequence \c stands for
Unescape(c) ==
    CASE c = "n" -> Newline
      [] c = "t" -> "\t"
      [] OTHER -> c

\* the rest of a string literal from position i: decoded characters acc
RECURSIVE ParseChars(_, _, _)
ParseChars(s, i, acc) ==
    IF i > Len(s) THEN ParseFail
    ELSE IF s[i] = Quote THEN ParseOk(Str(acc), i + 1)
    ELSE IF s[i] = Backslash
         THEN IF i + 1 <= Len(s) /\ s[i + 1] \in {Quote, Backslash, "/", "n", "t"}
              THEN ParseChars(s, i + 2, Append(acc, Unescape(s[i + 1])))
              ELSE ParseFail
    ELSE IF s[i] \in {Newline, "\t"} THEN ParseFail
    ELSE ParseChars(s, i + 1, Append(acc, s[i]))

Literals == { <<"n", "u", "l", "l">>, <<"t", "r", "u", "e">>, <<"f", "a", "l", "s", "e">> }

RECURSIVE ParseValue(_, _)
RECURSIVE ParseElements(_, _, _)
RECURSIVE ParseMembers(_, _, _)

\* the elements of an array after '[' or ',': a value, then ',' or ']'
ParseElements(s, i, acc) ==
    LET r == ParseValue(s, i) IN
    IF ~r.ok THEN ParseFail
    ELSE LET j == SkipWs(s, r.next) IN
         IF j > Len(s) THEN ParseFail
         ELSE IF s[j] = "]" THEN ParseOk(Arr(Append(acc, r.v)), j + 1)
         ELSE IF s[j] = "," THEN ParseElements(s, j + 1, Append(acc, r.v))
         ELSE ParseFail

\* the members of an object after '{' or ',': "key" : value, then ',' or '}'
ParseMembers(s, i, acc) ==
    LET k == SkipWs(s, i) IN
    IF k > Len(s) \/ s[k] # Quote THEN ParseFail
    ELSE LET key == ParseChars(s, k + 1, <<>>) IN
         IF ~key.ok THEN ParseFail
         ELSE LET c == SkipWs(s, key.next) IN
              IF c > Len(s) \/ s[c] # ":" THEN ParseFail
              ELSE LET r == ParseValue(s, c + 1) IN
                   IF ~r.ok THEN ParseFail
                   ELSE LET j == SkipWs(s, r.next)
                            members == acc \o <<key.v, r.v>>
                        IN  IF j > Len(s) THEN ParseFail
                            ELSE IF s[j] = "}" THEN ParseOk(Obj(members), j + 1)
                            ELSE IF s[j] = "," THEN ParseMembers(s, j + 1, members)
                            ELSE ParseFail

\* one JSON value at or after position i
ParseValue(s, i) ==
    LET j == SkipWs(s, i) IN
    IF j > Len(s) THEN ParseFail
    ELSE IF s[j] = "{"
         THEN LET k == SkipWs(s, j + 1) IN
              IF k <= Len(s) /\ s[k] = "}" THEN ParseOk(Obj(<<>>), k + 1)
              ELSE ParseMembers(s, j + 1, <<>>)
    ELSE IF s[j] = "["
         THEN LET k == SkipWs(s, j + 1) IN
              IF k <= Len(s) /\ s[k] = "]" THEN ParseOk(Arr(<<>>), k + 1)
              ELSE ParseElements(s, j + 1, <<>>)
    ELSE IF s[j] = Quote THEN ParseChars(s, j + 1, <<>>)
    ELSE IF s[j] \in Digits
         THEN LET k == SpanEnd(s, j, Digits) IN
              IF s[j] = "0" /\ k > j THEN ParseFail
              ELSE ParseOk(Num(SubSeq(s, j, k)), k + 1)
    ELSE IF \E l \in Literals : StartsWithAt(s, j, l)
         THEN LET l == CHOOSE l \in Literals : StartsWithAt(s, j, l)
              IN  ParseOk(Lit(l), j + Len(l))
    ELSE ParseFail

\* JSON.parse(text): ok = FALSE is the SyntaxError
JsonParse(text) ==
    LET r == ParseValue(text, 1) IN
    IF r.ok /\ SkipWs(text, r.next) > Len(text) THEN [ok |-> TRUE, v |-> r.v]
    ELSE [ok |-> FALSE, v |-> Undefined]

(***************************************************************************)
(* tryRecoverQuizJson (lines 146-207) and safeJsonParse (209-220) on texts.*)
(***************************************************************************)
QuestionsKey == <<Quote, "q", "u", "e", "s", "t", "i", "o", "n", "s", Quote>>

\* the position at which /"questions"\s*:\s*\[/ matches first, and the
\* position of the '[' that ends that match; <<0, 0>> when there is no match
QuestionsMatch(s) ==
    LET bracketAt(i) ==
            LET colon == SpanEnd(s, i + Len(QuestionsKey), WhiteSpace) + 1
                bracket == SpanEnd(s, colon + 1, WhiteSpace) + 1
            IN  IF /\ StartsWithAt(s, i, QuestionsKey)
                   /\ colon <= Len(s) /\ s[colon] = ":"
                   /\ bracket <= Len(s) /\ s[bracket] = "["
                THEN bracket ELSE 0
        starts == {i \in 1 .. Len(s) : bracketAt(i) # 0}
    IN  IF starts = {} THEN <<0, 0>> ELSE <<MinOf(starts), bracketAt(MinOf(starts))>>

NotRecovered == [ok |-> FALSE, objs |-> <<>>]

\* the while loop of lines 156-203 from position i with objs collected:
\* RecoverObjects skips to the next '{' (157-159), ObjectScanned has the end
\* of the object that starts at j (161-200), ObjectParsed has what
\* JSON.parse(sanitizeJsonString(objStr)) gave (191-197)
RECURSIVE RecoverObjects(_, _, _)
RECURSIVE ObjectScanned(_, _, _, _)
RECURSIVE ObjectParsed(_, _, _, _)
\* a recovery that stops at an element that does not parse and keeps the
\* objects collected before it
ObjectParsedKeeping(s, end, p, objs) ==
    IF ~p.ok THEN [ok |-> TRUE, objs |-> objs]
    ELSE RecoverObjects(s, end + 1, Append(objs, p.v))

ObjectParsed(s, end, p, objs) ==
    IF ~p.ok THEN NotRecovered
    ELSE RecoverObjects(s, end + 1, Append(objs, p.v))

ObjectScanned(s, j, end, objs) ==
    IF end = 0 THEN [ok |-> TRUE, objs |-> objs]
    ELSE ObjectParsed(s, end, JsonParse(sanitizeJsonString(Slice(s, j, end))), objs)

RecoverObjects(s, i, objs) ==
    LET j == SpanEnd(s, i, WhiteSpace \cup {","}) + 1 IN
    IF j > Len(s) \/ s[j] # "{" THEN [ok |-> TRUE, objs |-> objs]
    ELSE ObjectScanned(s, j, ScanBalanced(s, j, 0, FALSE, FALSE, "{", "}"), objs)

\* line 205: if (!objs.length) return undefined
NonEmpty(r) == IF ~r.ok \/ r.objs = <<>> THEN NotRecovered ELSE r

\* lines 149-155 with the match m; !m || !m.index: no match, or a match at
\* the very start of the text
RecoverAfter(raw, m) ==
    IF m[1] = 0 \/ m[1] = 1 THEN NotRecovered
    ELSE NonEmpty(RecoverObjects(raw, m[2] + 1, <<>>))

\* tryRecoverQuizJson: ok = FALSE is undefined
tryRecoverQuizJson(raw) == RecoverAfter(raw, QuestionsMatch(raw))

\* the length of the diagnostic body: cleaned.slice(0, 400)
BODY_LIMIT == 400

ParserReturned(value) == [status |-> "returned", value |-> value, body |-> <<>>]
ParserThrew(body) == [status |-> "thrown", value |-> Undefined, body |-> body]

\* { questions: objs }, line 215
QuestionsObject(objs) ==
    Obj(<<Str(<<"q", "u", "e", "s", "t", "i", "o", "n", "s">>), Arr(objs)>>)

\* lines 216-218: the error with the start of cleaned as its body
InvalidJsonOf(cleaned) == ParserThrew(SubSeq(cleaned, 1, Min(Len(cleaned), BODY_LIMIT)))

\* a catch block handing on whatever the recovery gave, undefined included
RecoveredOrUndefined(cleaned, recovered) ==
    IF recovered.ok THEN ParserReturned(QuestionsObject(recovered.objs))
    ELSE ParserReturned(Undefined)

\* lines 213-219: the catch block, with what tryRecoverQuizJson(raw) gave
RecoveredOrThrown(cleaned, recovered) ==
    IF recovered.ok THEN ParserReturned(QuestionsObject(recovered.objs))
    ELSE InvalidJsonOf(cleaned)

\* lines 211-219 with cleaned and what JSON.parse(cleaned) gave
ParsedOrRecovered(raw, cleaned, strict) ==
    IF strict.ok THEN ParserReturned(strict.v)
    ELSE RecoveredOrThrown(cleaned, tryRecoverQuizJson(raw))

\* lines 210-219 with cleaned
safeJsonParseOf(raw, cleaned) == ParsedOrRecovered(raw, cleaned, JsonParse(cleaned))

\* safeJsonParse, lines 209-220, on a text
safeJsonParseText(raw) == safeJsonParseOf(raw, sanitizeJsonString(raw))

(***************************************************************************)
(* Configuration read from the environment.                                *)
(***************************************************************************)
\* gemini.ts:37-53 and quizGenerator.ts:491-493 (no model override set)
QUIZ_MODELS ==
    << "gemini-1.5-pro-latest", "gemini-1.5-flash-latest", "gemini-2.0-flash",
       "gemini-2.0-flash-exp", "gemini-1.5-pro", "gemini-1.5-flash",
       "gemini-1.5-pro-002", "gemini-1.5-flash-002" >>

QUIZ_MODEL == QUIZ_MODELS[1]

modelCandidates == SubSeq(QUIZ_MODELS, 1, NumGeminiModels)

\* quizGenerator.ts:421-429 (DEEPSEEK_MODEL unset)
DEEPSEEK_MODEL_CANDIDATES == << "deepseek-chat", "deepseek-reasoner" >>

\* quizGenerator.ts:406-419 (GROQ_MODEL unset)
GROQ_MODELS ==
    << "llama-3.3-70b-versatile", "llama-3.1-8b-instant", "openai/gpt-oss-20b",
       "openai/gpt-oss-120b", "qwen/qwen3-32b" >>

GROQ_MODEL_CANDIDATES == SubSeq(GROQ_MODELS, 1, NumGroqModels)

\* the environments the process can be started in
Envs ==
    [ geminiKeys : 0 .. MaxGeminiKeys,       \* getGeminiApiKeys().length
      deepseekKey : BOOLEAN,                  \* DEEPSEEK_API_KEY non-empty
      groqKey : BOOLEAN,                      \* GROQ_API_KEY non-empty
      maxConcurrency : 1 .. MaxConcurrency ]  \* MAX_GLOBAL_CONCURRENCY

\* quizGenerator.ts:502-504
canUseGemini == env.geminiKeys > 0
canUseDeepSeek == env.deepseekKey
canUseGroq == env.groqKey

(***************************************************************************)
(* llmStats (quizGenerator.ts:431-461).                                    *)
(***************************************************************************)
InitStats ==
    [ geminiAttempts |-> 0, geminiSuccess |-> 0, geminiFail |-> 0,
      deepseekAttempts |-> 0, deepseekSuccess |-> 0, deepseekFail |-> 0,
      groqAttempts |-> 0, groqSuccess |-> 0, groqFail |-> 0,
      lastProvider |-> "", lastModel |-> "", lastError |-> <<>> ]

\* String(error?.message || error)
MessageOf(e) == e.message

\* formatProviderError, lines 47-53
formatProviderError(e) ==
    e.message
      \o (IF e.status # 0 THEN << "status=" \o ToString(e.status) >> ELSE <<>>)
      \o e.body

(***************************************************************************)
(* The local state of one generateQuiz call.  pc is the await the call is  *)
(* suspended at:                                                           *)
(*   idle      generateQuiz not yet called                                 *)
(*   queued    in acquire(), resume callback on waiters                    *)
(*   admitted  acquire() resolved (slot held), continuation not yet run    *)
(*   running   (gate-only specifications) inside fn()                      *)
(*   gemini    awaiting the race of generateContent and the 25 s timer     *)
(*   sleep     awaiting delay(cappedWaitTime)                              *)
(*   deepseek  awaiting callDeepSeek(prompt, DEEPSEEK_MODEL_CANDIDATES[m]) *)
(*   groq      awaiting callGroq(prompt, GROQ_MODEL_CANDIDATES[m])         *)
(*   settled   fn() returned or threw, the finally block not yet run       *)
(*   done      withConcurrencyLimit finished: the caller has the result    *)
(***************************************************************************)
NoResult == [status |-> "pending", quiz |-> NoValue, message |-> <<>>]
Returned(q) == [status |-> "returned", quiz |-> q, message |-> <<>>]
Threw(msg) == [status |-> "thrown", quiz |-> NoValue, message |-> msg]

InitCall ==
    [ pc |-> "idle",
      attempt |-> 0,                          \* line 499
      modelIndex |-> 0,                       \* line 497
      keyIndex |-> 0,                         \* line 498
      lastSuggestedRetrySeconds |-> -1,       \* line 500 (ms, -1 = undefined)
      elapsed |-> 0,                          \* Date.now() - startedAt
      m |-> 0,                                \* index of the for-of loops
      error |-> NoError,                      \* the Gemini error being handled
      wait |-> 0,                             \* the delay being awaited
      result |-> NoResult,
      \* history
      acquires |-> 0,                         \* acquire() calls made
      releases |-> 0,                         \* release() calls made
      requests |-> 0,                         \* provider calls started
      raced |-> FALSE,                        \* called while a woken waiter had not resumed
      usage |-> <<>>,                         \* the usageCollector invocations, in order
      tries |-> 0,                            \* Gemini attempts since the last model switch
      key |-> 0,                              \* which key the last Gemini attempt used (0: none)
      abandoned |-> 0,                        \* Gemini requests left running by the timer
      seen |-> NoAnswer ]                     \* the answer of the last provider call

(***************************************************************************)
(* Classification of a Gemini failure, lines 656-676.                      *)
(***************************************************************************)
\* retryMatch1?.[1] || retryMatch2?.[1], converted: Math.ceil(Number(x) * 1000)
retrySeconds(e) == IF e.retryIn >= 0 THEN e.retryIn ELSE e.retryDelay

hasRetrySeconds(e) == e.retryIn >= 0 \/ e.retryDelay >= 0

isHardFreeTierZero(e) ==
    /\ Includes(e.message, "limit: 0")
    /\ (Includes(e.message, "generate_content_free_tier") \/ Includes(e.message, "FreeTier"))

isModelNotFound(e) ==
    \/ e.status = 404
    \/ Includes(e.message, "404")
    \/ (Includes(e.message, "models/") /\ Includes(e.message, "not found"))

isRateLimit(e) ==
    \/ e.status = 429
    \/ Includes(e.message, "429")
    \/ Includes(ToLowerCase(e.message), "rate limit")
    \/ Includes(ToLowerCase(e.message), "quota")

isForbidden(e) ==
    \/ e.status = 401
    \/ e.status = 403
    \/ Includes(e.message, "403")
    \/ Includes(e.message, "401")
    \/ Includes(ToLowerCase(e.message), "permission")

isServerOverload(e) == e.status = 503 \/ Includes(e.message, "503")

\* a classification that does not know the timer's rejection
isTimeoutNever(e) == FALSE

isTimeout(e) == e.message = <<"GENERATION_TIMEOUT">> \/ Includes(e.message, "TIMEOUT")

\* the condition of lines 712 and 759
fallbackClass(e) ==
    isModelNotFound(e) \/ isRateLimit(e) \/ isServerOverload(e) \/ isTimeout(e) \/ isForbidden(e)

\* lines 690-692, attempt already incremented
rawWaitTime(e, attempt) ==
    IF hasRetrySeconds(e)
    THEN Max(500, retrySeconds(e))
    ELSE INITIAL_RETRY_DELAY_MS * Pow2(attempt)

\* the capped wait computed from the exponential schedule alone
cappedWaitTimeNoHint(e, attempt) ==
    Min(INITIAL_RETRY_DELAY_MS * Pow2(attempt), MAX_GEMINI_RETRY_DELAY_MS)

\* line 695
cappedWaitTime(e, attempt) == Min(rawWaitTime(e, attempt), MAX_GEMINI_RETRY_DELAY_MS)

\* a DeepSeek pass that moves to the next candidate on every HTTP 400
deepseekSkipsEvery400(e) == e.status = 400

\* lines 535-537 / 742-744
deepseekSkips(e) ==
    /\ e.status = 400
    /\ \/ Includes(e.body, "invalid_request_error")
       \/ (Includes(ToLowerCase(e.body), "model") /\ Includes(ToLowerCase(e.body), "not found"))

\* lines 579-581 / 789-791
groqSkips(e) ==
    /\ e.status = 400
    /\ \/ Includes(e.body, "model_decommissioned")
       \/ Includes(ToLowerCase(e.body), "decommissioned")
       \/ Includes(e.body, "invalid_request_error")

(***************************************************************************)
(* The answers the providers can give, and what the try block around a     *)
(* provider call makes of one.                                             *)
(***************************************************************************)
GeminiAnswers == {Text(raw) : raw \in Contents} \cup {Reject(e) : e \in GeminiErrors}

AdapterAnswers == {Text(raw) : raw \in Contents} \cup {Reject(e) : e \in AdapterErrors}

\* lines 614-635: what the try block of a Gemini attempt makes of the answer
GeminiOutcome(a) ==
    CASE a.kind = "text" -> CheckGeminiText(a.text)
      [] a.kind = "timeout" -> Thrown(NewError("GENERATION_TIMEOUT"))
      [] OTHER -> Thrown(a.error)

\* lines 515-522 and copies: what the try block makes of an adapter's answer
AdapterOutcome(a, provider) ==
    IF a.kind = "text" THEN CheckAdapterText(a.text, provider) ELSE Thrown(a.error)

(***************************************************************************)
(* The body of generateQuiz as transformations of st = [c, s]: c the       *)
(* call's local state, s the shared llmStats.  Each operator is the code   *)
(* run from one point up to the next await (or to the end of the body).    *)
(* Where a provider call settles, st also carries usageCollector: what the *)
(* caller's usageCollector argument does if it is invoked in that run.     *)
(***************************************************************************)
\* the caller-supplied usageCollector returns, or throws
Sinks == {"returns", "throws"}

\* usageCollector is invoked only once the try block's checks have passed
\* (outcome o is a quiz); in every other run what it would do plays no part
SinksOf(o) == IF o.ok THEN Sinks ELSE {"returns"}

\* usageCollector?.({ provider, model, ...usage }) inside try { } catch { }
\* (lines 523-528, 567-572, 637-642, 729-734, 776-781): the sink is invoked
\* and whatever it throws is swallowed
ReportUsage(st, provider, model) ==
    [st EXCEPT !.c.usage = Append(@, [provider |-> provider, model |-> model,
                                      threw |-> st.usageCollector = "throws"])]

\* the async body settles: return or throw
Finish(st, res) == [st EXCEPT !.c.pc = "settled", !.c.result = res]

\* lines 805-810: the terminal errors of the Gemini path
Terminal(st) ==
    IF st.c.attempt > MAX_RETRIES /\ isRateLimit(st.c.error)
    THEN Finish(st, Threw(
            << "Gemini API Quota Exceeded. The system is currently busy." >>
            \o (IF st.c.lastSuggestedRetrySeconds >= 0
                THEN << "Please retry in", ToString(st.c.lastSuggestedRetrySeconds) >>
                ELSE <<>>)))
    ELSE Finish(st, Threw(
            << "Failed to generate quiz. The AI service might be busy or the file content is unclear." >>))

\* one iteration of `for (const m of GROQ_MODEL_CANDIDATES)` up to the await
BeginGroq(st, i) ==
    [st EXCEPT !.s.lastModel = GROQ_MODEL_CANDIDATES[i],
               !.c.pc = "groq", !.c.m = i, !.c.requests = @ + 1]

\* lines 553-556 / 761-764
EnterGroq(st) ==
    BeginGroq([st EXCEPT !.s.groqAttempts = @ + 1, !.s.lastProvider = "groq"], 1)

\* a DeepSeek pass that sends the request to candidate i and, speculatively,
\* a second one alongside it
BeginDeepSeekSpeculative(st, i) ==
    [st EXCEPT !.s.lastModel = DEEPSEEK_MODEL_CANDIDATES[i],
               !.c.pc = "deepseek", !.c.m = i, !.c.requests = @ + 2]

\* one iteration of `for (const m of DEEPSEEK_MODEL_CANDIDATES)` up to the await
BeginDeepSeek(st, i) ==
    [st EXCEPT !.s.lastModel = DEEPSEEK_MODEL_CANDIDATES[i],
               !.c.pc = "deepseek", !.c.m = i, !.c.requests = @ + 1]

\* lines 509-512 / 714-717
EnterDeepSeek(st) ==
    BeginDeepSeek([st EXCEPT !.s.deepseekAttempts = @ + 1, !.s.lastProvider = "deepseek"], 1)

\* line 597: the position in keyCandidates of currentKey (0 for undefined)
currentKey(keyIndex) ==
    IF env.geminiKeys > 0 THEN (keyIndex % env.geminiKeys) + 1 ELSE 0

\* a Gemini attempt that takes its key by a process-wide cursor, the number
\* of Gemini attempts made so far by any call
BeginGeminiSharedCursor(st) ==
    IF st.c.attempt <= MAX_RETRIES
    THEN [st EXCEPT !.s.geminiAttempts = @ + 1,
                    !.s.lastProvider = "gemini",
                    !.s.lastModel = modelCandidates[st.c.modelIndex + 1],
                    !.c.pc = "gemini", !.c.requests = @ + 1, !.c.tries = @ + 1,
                    !.c.key = currentKey(st.s.geminiAttempts)]
    ELSE Finish(st, Threw(<< "Unexpected error in generation loop." >>))

\* lines 595-620: the loop head and the start of a Gemini attempt
BeginGemini(st) ==
    IF st.c.attempt <= MAX_RETRIES
    THEN [st EXCEPT !.s.geminiAttempts = @ + 1,
                    !.s.lastProvider = "gemini",
                    !.s.lastModel = modelCandidates[st.c.modelIndex + 1],
                    !.c.pc = "gemini", !.c.requests = @ + 1, !.c.tries = @ + 1,
                    !.c.key = currentKey(st.c.keyIndex)]
    ELSE Finish(st, Threw(<< "Unexpected error in generation loop." >>))

\* the body without the no-Gemini branch: the default client is used
StartBodyGeminiAlways(st) == BeginGemini(st)

\* lines 482-593: the body up to its first await
StartBody(st) ==
    IF ~canUseGemini
    THEN IF canUseDeepSeek THEN EnterDeepSeek(st)
         ELSE IF canUseGroq THEN EnterGroq(st)
         ELSE Finish(st, Threw(<< "No LLM provider configured." >>))
    ELSE BeginGemini(st)

\* lines 552-590 (no-Gemini path), after callGroq settled with outcome o
GroqDirectDone(st, o) ==
    IF o.ok
    THEN Finish([ReportUsage(st, "groq", GROQ_MODEL_CANDIDATES[st.c.m])
                   EXCEPT !.s.groqSuccess = @ + 1, !.s.lastError = <<>>],
                Returned(o.quiz))
    ELSE IF groqSkips(o.error) /\ st.c.m < Len(GROQ_MODEL_CANDIDATES)
    THEN BeginGroq(st, st.c.m + 1)
    ELSE Finish([st EXCEPT !.s.groqFail = @ + 1,
                           !.s.lastError = formatProviderError(o.error)],
                Threw(<< "Groq failed:" >> \o formatProviderError(o.error)))

\* the no-Gemini DeepSeek pass forgetting deepseekFail++ when Groq takes over
DeepSeekDirectDoneNoFail(st, o) ==
    IF o.ok
    THEN Finish([ReportUsage(st, "deepseek", DEEPSEEK_MODEL_CANDIDATES[st.c.m])
                   EXCEPT !.s.deepseekSuccess = @ + 1, !.s.lastError = <<>>],
                Returned(o.quiz))
    ELSE IF deepseekSkips(o.error) /\ st.c.m < Len(DEEPSEEK_MODEL_CANDIDATES)
    THEN BeginDeepSeek(st, st.c.m + 1)
    ELSE IF ~canUseGroq
         THEN Finish([st EXCEPT !.s.deepseekFail = @ + 1,
                                !.s.lastError = formatProviderError(o.error)],
                     Threw(<< "DeepSeek failed:" >> \o formatProviderError(o.error)))
         ELSE EnterGroq([st EXCEPT !.s.lastError = formatProviderError(o.error)])

\* lines 508-550 (no-Gemini path), after callDeepSeek settled with outcome o
DeepSeekDirectDone(st, o) ==
    IF o.ok
    THEN Finish([ReportUsage(st, "deepseek", DEEPSEEK_MODEL_CANDIDATES[st.c.m])
                   EXCEPT !.s.deepseekSuccess = @ + 1, !.s.lastError = <<>>],
                Returned(o.quiz))
    ELSE IF deepseekSkips(o.error) /\ st.c.m < Len(DEEPSEEK_MODEL_CANDIDATES)
    THEN BeginDeepSeek(st, st.c.m + 1)
    ELSE LET failed == [st EXCEPT !.s.deepseekFail = @ + 1,
                                  !.s.lastError = formatProviderError(o.error)]
         IN  IF ~canUseGroq
             THEN Finish(failed, Threw(<< "DeepSeek failed:" >> \o formatProviderError(o.error)))
             ELSE EnterGroq(failed)

\* the Groq fallback returning its quiz without reporting the usage
GroqFallbackDoneNoUsage(st, o) ==
    IF o.ok
    THEN Finish([st EXCEPT !.s.groqSuccess = @ + 1, !.s.lastError = <<>>], Returned(o.quiz))
    ELSE IF groqSkips(o.error) /\ st.c.m < Len(GROQ_MODEL_CANDIDATES)
    THEN BeginGroq(st, st.c.m + 1)
    ELSE Terminal([st EXCEPT !.s.groqFail = @ + 1, !.s.lastError = MessageOf(o.error)])

\* the Groq fallback going back to the Gemini loop when every Groq model failed
GroqFallbackDoneRetriesGemini(st, o) ==
    IF o.ok
    THEN Finish([ReportUsage(st, "groq", GROQ_MODEL_CANDIDATES[st.c.m])
                   EXCEPT !.s.groqSuccess = @ + 1, !.s.lastError = <<>>],
                Returned(o.quiz))
    ELSE IF groqSkips(o.error) /\ st.c.m < Len(GROQ_MODEL_CANDIDATES)
    THEN BeginGroq(st, st.c.m + 1)
    ELSE BeginGemini([st EXCEPT !.s.groqFail = @ + 1, !.s.lastError = MessageOf(o.error),
                                !.c.attempt = 0])

\* lines 759-810 (fallback), after callGroq settled with outcome o
GroqFallbackDone(st, o) ==
    IF o.ok
    THEN Finish([ReportUsage(st, "groq", GROQ_MODEL_CANDIDATES[st.c.m])
                   EXCEPT !.s.groqSuccess = @ + 1, !.s.lastError = <<>>],
                Returned(o.quiz))
    ELSE IF groqSkips(o.error) /\ st.c.m < Len(GROQ_MODEL_CANDIDATES)
    THEN BeginGroq(st, st.c.m + 1)
    ELSE Terminal([st EXCEPT !.s.groqFail = @ + 1, !.s.lastError = MessageOf(o.error)])

\* lines 758-810: after the DeepSeek fallback block
AfterDeepSeek(st) ==
    IF canUseGroq /\ fallbackClass(st.c.error) THEN EnterGroq(st) ELSE Terminal(st)

\* lines 712-756 (fallback), after callDeepSeek settled with outcome o
DeepSeekFallbackDone(st, o) ==
    IF o.ok
    THEN Finish([ReportUsage(st, "deepseek", DEEPSEEK_MODEL_CANDIDATES[st.c.m])
                   EXCEPT !.s.deepseekSuccess = @ + 1, !.s.lastError = <<>>],
                Returned(o.quiz))
    ELSE IF deepseekSkips(o.error) /\ st.c.m < Len(DEEPSEEK_MODEL_CANDIDATES)
    THEN BeginDeepSeek(st, st.c.m + 1)
    ELSE AfterDeepSeek([st EXCEPT !.s.deepseekFail = @ + 1,
                                  !.s.lastError = MessageOf(o.error)])

\* a provider fallback that passes over DeepSeek
FallbackWithoutDeepSeek(st) == AfterDeepSeek(st)

\* lines 711-810: provider fallback for the Gemini error st.c.error
Fallback(st) ==
    IF canUseDeepSeek /\ fallbackClass(st.c.error) THEN EnterDeepSeek(st) ELSE AfterDeepSeek(st)

\* retry or fall through without the time budget: only a suggested wait
\* above the ceiling sends the call to another provider
RetryOrFallbackNoBudget(st) ==
    LET e == st.c.error
        raw == rawWaitTime(e, st.c.attempt)
        capped == cappedWaitTime(e, st.c.attempt)
        suggestedTooLong == raw > MAX_GEMINI_RETRY_DELAY_MS
    IN  IF /\ (isRateLimit(e) \/ isServerOverload(e) \/ isTimeout(e))
           /\ st.c.attempt <= MAX_RETRIES
           /\ ~isHardFreeTierZero(e)
           /\ ~((canUseDeepSeek \/ canUseGroq) /\ suggestedTooLong)
        THEN [st EXCEPT !.c.pc = "sleep", !.c.wait = capped, !.c.error = NoError]
        ELSE Fallback(st)

\* retry or fall through with a hard free-tier zero treated as any other
\* rate limit
RetryOrFallbackZeroRetried(st) ==
    LET e == st.c.error
        raw == rawWaitTime(e, st.c.attempt)
        capped == cappedWaitTime(e, st.c.attempt)
        wouldExceedBudget == st.c.elapsed + capped > MAX_GEMINI_TOTAL_TIME_MS
        suggestedTooLong == raw > MAX_GEMINI_RETRY_DELAY_MS
    IN  IF /\ (isRateLimit(e) \/ isServerOverload(e) \/ isTimeout(e))
           /\ st.c.attempt <= MAX_RETRIES
           /\ ~((canUseDeepSeek \/ canUseGroq) /\ (suggestedTooLong \/ wouldExceedBudget))
        THEN [st EXCEPT !.c.pc = "sleep", !.c.wait = capped, !.c.error = NoError]
        ELSE Fallback(st)

\* lines 689-709: retry Gemini after a backoff, or fall through
RetryOrFallback(st) ==
    LET e == st.c.error
        raw == rawWaitTime(e, st.c.attempt)
        capped == cappedWaitTime(e, st.c.attempt)
        wouldExceedBudget == st.c.elapsed + capped > MAX_GEMINI_TOTAL_TIME_MS
        suggestedTooLong == raw > MAX_GEMINI_RETRY_DELAY_MS
    IN  IF /\ (isRateLimit(e) \/ isServerOverload(e) \/ isTimeout(e))
           /\ st.c.attempt <= MAX_RETRIES
           /\ ~isHardFreeTierZero(e)
           /\ ~((canUseDeepSeek \/ canUseGroq) /\ (suggestedTooLong \/ wouldExceedBudget))
        THEN [st EXCEPT !.c.pc = "sleep", !.c.wait = capped, !.c.error = NoError]
        ELSE Fallback(st)

\* a key rotation after every failure, whatever its class
RotateKeyOnAnyFailure(st) ==
    IF env.geminiKeys > 1 THEN [st EXCEPT !.c.keyIndex = @ + 1] ELSE st

\* lines 685-687: key rotation
RotateKey(st) ==
    LET e == st.c.error IN
    IF (isRateLimit(e) \/ isForbidden(e) \/ isServerOverload(e) \/ isTimeout(e))
       /\ env.geminiKeys > 1
    THEN [st EXCEPT !.c.keyIndex = @ + 1]
    ELSE st

\* the catch block without the rethrow of 'Insufficient content'
GeminiCatchNoRethrow(st, e) ==
    LET s1 == [st EXCEPT !.s.geminiFail = @ + 1,
                         !.s.lastError = MessageOf(e),
                         !.c.attempt = @ + 1,
                         !.c.error = e]
        s2 == IF hasRetrySeconds(e)
              THEN [s1 EXCEPT !.c.lastSuggestedRetrySeconds = retrySeconds(e)]
              ELSE s1
    IN  IF isModelNotFound(e) /\ s2.c.modelIndex + 1 < Len(modelCandidates)
        THEN BeginGemini([s2 EXCEPT !.c.modelIndex = @ + 1, !.c.attempt = 0,
                                    !.c.error = NoError, !.c.tries = 0])
        ELSE RetryOrFallback(RotateKey(s2))

\* the catch block switching model without `attempt = 0`
GeminiCatchNoAttemptReset(st, e) ==
    LET s1 == [st EXCEPT !.s.geminiFail = @ + 1,
                         !.s.lastError = MessageOf(e),
                         !.c.attempt = @ + 1,
                         !.c.error = e]
    IN  IF e.message = << "Insufficient content" >>
        THEN Finish(s1, Threw(e.message))
        ELSE LET s2 == IF hasRetrySeconds(e)
                       THEN [s1 EXCEPT !.c.lastSuggestedRetrySeconds = retrySeconds(e)]
                       ELSE s1
             IN  IF isModelNotFound(e) /\ s2.c.modelIndex + 1 < Len(modelCandidates)
                 THEN BeginGemini([s2 EXCEPT !.c.modelIndex = @ + 1,
                                             !.c.error = NoError, !.c.tries = 0])
                 ELSE RetryOrFallback(RotateKey(s2))

\* the catch block without `attempt++`
GeminiCatchNoAttemptIncrement(st, e) ==
    LET s1 == [st EXCEPT !.s.geminiFail = @ + 1,
                         !.s.lastError = MessageOf(e),
                         !.c.error = e]
    IN  IF e.message = << "Insufficient content" >>
        THEN Finish(s1, Threw(e.message))
        ELSE LET s2 == IF hasRetrySeconds(e)
                       THEN [s1 EXCEPT !.c.lastSuggestedRetrySeconds = retrySeconds(e)]
                       ELSE s1
             IN  IF isModelNotFound(e) /\ s2.c.modelIndex + 1 < Len(modelCandidates)
                 THEN BeginGemini([s2 EXCEPT !.c.modelIndex = @ + 1, !.c.attempt = 0,
                                             !.c.error = NoError, !.c.tries = 0])
                 ELSE RetryOrFallback(RotateKey(s2))

\* lines 647-811: the catch block of a Gemini attempt that threw e
GeminiCatch(st, e) ==
    LET s1 == [st EXCEPT !.s.geminiFail = @ + 1,
                         !.s.lastError = MessageOf(e),
                         !.c.attempt = @ + 1,
                         !.c.error = e]
    IN  IF e.message = << "Insufficient content" >>
        THEN Finish(s1, Threw(e.message))
        ELSE LET s2 == IF hasRetrySeconds(e)
                       THEN [s1 EXCEPT !.c.lastSuggestedRetrySeconds = retrySeconds(e)]
                       ELSE s1
             IN  IF isModelNotFound(e) /\ s2.c.modelIndex + 1 < Len(modelCandidates)
                 THEN BeginGemini([s2 EXCEPT !.c.modelIndex = @ + 1, !.c.attempt = 0,
                                             !.c.error = NoError, !.c.tries = 0])
                 ELSE RetryOrFallback(RotateKey(s2))

\* the success path with the usage report outside any try/catch: what the
\* sink throws reaches the catch block of the attempt
GeminiSuccessSinkUncaught(st, quiz) ==
    IF st.usageCollector = "throws"
    THEN GeminiCatch(ReportUsage(st, "gemini", modelCandidates[st.c.modelIndex + 1]),
                     NewError("usageCollector failed"))
    ELSE Finish([ReportUsage(st, "gemini", modelCandidates[st.c.modelIndex + 1])
                   EXCEPT !.s.geminiSuccess = @ + 1, !.s.lastError = <<>>],
                Returned(quiz))

\* lines 622-646: the attempt's response text passed every check
GeminiSuccess(st, quiz) ==
    Finish([ReportUsage(st, "gemini", modelCandidates[st.c.modelIndex + 1])
              EXCEPT !.s.geminiSuccess = @ + 1, !.s.lastError = <<>>],
           Returned(quiz))

\* lines 614-654: the race settled with answer a after d milliseconds
GeminiDone(st, a, d) ==
    LET s1 == [st EXCEPT !.c.elapsed = Min(MAX_GEMINI_TOTAL_TIME_MS, @ + d),
                         !.c.seen = a,
                         \* the timer's rejection settles the race; generateContent
                         \* is not cancelled and its request goes on
                         !.c.abandoned = IF a.kind = "timeout" THEN @ + 1 ELSE @]
        o == GeminiOutcome(a)
    IN  IF o.ok THEN GeminiSuccess(s1, o.quiz) ELSE GeminiCatch(s1, o.error)

\* lines 512-550 or 717-756: callDeepSeek settled with answer a
DeepSeekDone(st, a) ==
    LET s1 == [st EXCEPT !.c.seen = a]
        o == AdapterOutcome(a, "DeepSeek")
    IN  IF canUseGemini THEN DeepSeekFallbackDone(s1, o) ELSE DeepSeekDirectDone(s1, o)

\* lines 556-590 or 764-803: callGroq settled with answer a
GroqDone(st, a) ==
    LET s1 == [st EXCEPT !.c.seen = a]
        o == AdapterOutcome(a, "Groq")
    IN  IF canUseGemini THEN GroqFallbackDone(s1, o) ELSE GroqDirectDone(s1, o)

\* a backoff whose delay promise is never resolved: the loop stays at the await
SleepDoneNever(st) == st

\* lines 706-707: delay(cappedWaitTime) elapsed, `continue`
SleepDone(st) ==
    BeginGemini([st EXCEPT !.c.elapsed = Min(MAX_GEMINI_TOTAL_TIME_MS, @ + st.c.wait),
                           !.c.wait = 0])

(***************************************************************************)
(* The concurrency gate, lines 31-68.                                      *)
(***************************************************************************)
\* history: some waiter's callback has run and its continuation has not
WokenPending ==
    \E w \in Calls : call[w].pc = "admitted" /\ \E i \in DOMAIN queueOrder : queueOrder[i] = w

\* acquire() admitting one caller too many (<= for <)
acquireOffByOne(c) ==
    IF inFlight <= env.maxConcurrency
    THEN /\ inFlight' = inFlight + 1
         /\ waiters' = waiters
         /\ call' = [call EXCEPT ![c].pc = "admitted", ![c].acquires = @ + 1,
                                 ![c].raced = WokenPending]
         /\ admitOrder' = Append(admitOrder, c)
         /\ queueOrder' = queueOrder
    ELSE /\ inFlight' = inFlight
         /\ waiters' = Append(waiters, c)
         /\ call' = [call EXCEPT ![c].pc = "queued", ![c].acquires = @ + 1,
                                 ![c].raced = WokenPending]
         /\ admitOrder' = admitOrder
         /\ queueOrder' = Append(queueOrder, c)

\* release() taking the newest waiter (pop for shift)
releasePop(c) ==
    LET freed == Max(0, inFlight - 1) IN
    IF waiters # <<>>
    THEN LET next == waiters[Len(waiters)] IN
         /\ waiters' = SubSeq(waiters, 1, Len(waiters) - 1)
         /\ inFlight' = freed + 1
         /\ call' = [call EXCEPT ![c].pc = "done", ![c].releases = @ + 1,
                                 ![next].pc = "admitted"]
         /\ admitOrder' = Append(admitOrder, next)
    ELSE /\ waiters' = waiters
         /\ inFlight' = freed
         /\ call' = [call EXCEPT ![c].pc = "done", ![c].releases = @ + 1]
         /\ admitOrder' = admitOrder

\* release() that frees the slot but never calls the queued callback
releaseNoWake(c) ==
    /\ waiters' = waiters
    /\ inFlight' = Max(0, inFlight - 1)
    /\ call' = [call EXCEPT ![c].pc = "done", ![c].releases = @ + 1]
    /\ admitOrder' = admitOrder

\* release() whose callback resumes the waiter without taking the slot
releaseNoIncrement(c) ==
    LET freed == Max(0, inFlight - 1) IN
    IF waiters # <<>>
    THEN LET next == Head(waiters) IN
         /\ waiters' = Tail(waiters)
         /\ inFlight' = freed
         /\ call' = [call EXCEPT ![c].pc = "done", ![c].releases = @ + 1,
                                 ![next].pc = "admitted"]
         /\ admitOrder' = Append(admitOrder, next)
    ELSE /\ waiters' = waiters
         /\ inFlight' = freed
         /\ call' = [call EXCEPT ![c].pc = "done", ![c].releases = @ + 1]
         /\ admitOrder' = admitOrder

\* acquire(), lines 34-45, called by withConcurrencyLimit (line 62) when
\* generateQuiz is called: take a slot, or push the resume callback
acquire(c) ==
    IF inFlight < env.maxConcurrency
    THEN /\ inFlight' = inFlight + 1
         /\ waiters' = waiters
         /\ call' = [call EXCEPT ![c].pc = "admitted", ![c].acquires = @ + 1,
                                 ![c].raced = WokenPending]
         /\ admitOrder' = Append(admitOrder, c)
         /\ queueOrder' = queueOrder
    ELSE /\ inFlight' = inFlight
         /\ waiters' = Append(waiters, c)
         /\ call' = [call EXCEPT ![c].pc = "queued", ![c].acquires = @ + 1,
                                 ![c].raced = WokenPending]
         /\ admitOrder' = admitOrder
         /\ queueOrder' = Append(queueOrder, c)

\* release(), lines 55-59, with the callback of lines 40-43 run by next()
release(c) ==
    LET freed == Max(0, inFlight - 1) IN
    IF waiters # <<>>
    THEN LET next == Head(waiters) IN
         /\ waiters' = Tail(waiters)
         /\ inFlight' = freed + 1
         /\ call' = [call EXCEPT ![c].pc = "done", ![c].releases = @ + 1,
                                 ![next].pc = "admitted"]
         /\ admitOrder' = Append(admitOrder, next)
    ELSE /\ waiters' = waiters
         /\ inFlight' = freed
         /\ call' = [call EXCEPT ![c].pc = "done", ![c].releases = @ + 1]
         /\ admitOrder' = admitOrder

\* generateQuiz is called (lines 480-481, 61-62)
Call(c) ==
    /\ call[c].pc = "idle"
    /\ acquire(c)
    /\ UNCHANGED <<env, llmStats>>

\* withConcurrencyLimit releasing after a normal return only (no finally)
FinallyOnReturnOnly(c) ==
    /\ call[c].pc = "settled"
    /\ IF call[c].result.status = "returned"
       THEN release(c)
       ELSE /\ call' = [call EXCEPT ![c].pc = "done"]
            /\ UNCHANGED <<inFlight, waiters, admitOrder>>
    /\ UNCHANGED <<env, llmStats, queueOrder>>

\* the finally block of withConcurrencyLimit, lines 65-67
Finally(c) ==
    /\ call[c].pc = "settled"
    /\ release(c)
    /\ UNCHANGED <<env, llmStats, queueOrder>>

\* one step of the body of call c: st -> nxt
Step(c, nxt) ==
    /\ call' = [call EXCEPT ![c] = nxt.c]
    /\ llmStats' = nxt.s
    /\ UNCHANGED <<env, inFlight, waiters, admitOrder, queueOrder>>

State(c) == [c |-> call[c], s |-> llmStats]

\* the same with the behaviour of the call's usageCollector argument
Settling(c, sink) == [c |-> call[c], s |-> llmStats, usageCollector |-> sink]

\* `await acquire()` resumes and fn() runs to its first await
Start(c) ==
    /\ call[c].pc = "admitted"
    /\ Step(c, StartBody(State(c)))

\* the Gemini call answers or rejects before the timer; the time it took is
\* not counted (the clock advances by timeouts and backoff waits only)
GeminiSettles(c) ==
    /\ call[c].pc = "gemini"
    /\ \E a \in GeminiAnswers : \E sink \in SinksOf(GeminiOutcome(a)) :
          Step(c, GeminiDone(Settling(c, sink), a, 0))

\* the 25 s timer wins the race (lines 616-619)
GeminiTimesOut(c) ==
    /\ call[c].pc = "gemini"
    /\ Step(c, GeminiDone(Settling(c, "returns"), TimedOut, GENERATION_TIMEOUT_MS))

\* the backoff delay ends
Wake(c) ==
    /\ call[c].pc = "sleep"
    /\ Step(c, SleepDone(State(c)))

\* callDeepSeek settles
DeepSeekSettles(c) ==
    /\ call[c].pc = "deepseek"
    /\ \E a \in AdapterAnswers : \E sink \in SinksOf(AdapterOutcome(a, "DeepSeek")) :
          Step(c, DeepSeekDone(Settling(c, sink), a))

\* callGroq settles
GroqSettles(c) ==
    /\ call[c].pc = "groq"
    /\ \E a \in AdapterAnswers : \E sink \in SinksOf(AdapterOutcome(a, "Groq")) :
          Step(c, GroqDone(Settling(c, sink), a))

(***************************************************************************)
(* The body of withConcurrencyLimit's argument taken as an arbitrary fn,   *)
(* for the specifications of the gate alone.                               *)
(***************************************************************************)
\* `await acquire()` resumes and fn() is called (line 64)
Run(c) ==
    /\ call[c].pc = "admitted"
    /\ call' = [call EXCEPT ![c].pc = "running"]
    /\ UNCHANGED <<env, inFlight, waiters, llmStats, admitOrder, queueOrder>>

\* fn() resolves
BodyReturns(c) ==
    /\ call[c].pc = "running"
    /\ call' = [call EXCEPT ![c].pc = "settled",
                            ![c].result = Returned(JsonValue(FALSE, TRUE, TRUE, 1))]
    /\ UNCHANGED <<env, inFlight, waiters, llmStats, admitOrder, queueOrder>>

\* fn() rejects
BodyThrows(c) ==
    /\ call[c].pc = "running"
    /\ call' = [call EXCEPT ![c].pc = "settled", ![c].result = Threw(<< "Error" >>)]
    /\ UNCHANGED <<env, inFlight, waiters, llmStats, admitOrder, queueOrder>>

(***************************************************************************)
(* Spec: one generateQuiz call, in every environment, against every        *)
(* sequence of provider outcomes.                                          *)
(***************************************************************************)
Init ==
    /\ env \in {e \in Envs : e.maxConcurrency = MaxConcurrency}
    /\ inFlight = 0
    /\ waiters = <<>>
    /\ llmStats = InitStats
    /\ call = [c \in {1} |-> InitCall]
    /\ admitOrder = <<>>
    /\ queueOrder = <<>>

Next ==
    \/ \E c \in Calls : Call(c)
    \/ \E c \in Calls : Start(c)
    \/ \E c \in Calls : GeminiSettles(c)
    \/ \E c \in Calls : GeminiTimesOut(c)
    \/ \E c \in Calls : Wake(c)
    \/ \E c \in Calls : DeepSeekSettles(c)
    \/ \E c \in Calls : GroqSettles(c)
    \/ \E c \in Calls : Finally(c)

Spec == Init /\ [][Next]_vars

\* FairSpec: the same call under what the event loop guarantees (a resolved
\* promise's continuation runs, a timer fires) and the assumption that every
\* provider request eventually answers or fails.
FairSpec ==
    /\ Spec
    /\ \A c \in {1} :
        /\ WF_vars(Call(c))
        /\ WF_vars(Start(c))
        /\ WF_vars(GeminiSettles(c) \/ GeminiTimesOut(c))
        /\ WF_vars(Wake(c))
        /\ WF_vars(DeepSeekSettles(c))
        /\ WF_vars(GroqSettles(c))
        /\ WF_vars(Finally(c))

(***************************************************************************)
(* GateSpec: NumCallers concurrent withConcurrencyLimit(fn) calls, for     *)
(* every configured limit.  FairGateSpec adds what the event loop          *)
(* guarantees (a settled promise's continuation runs; every caller does    *)
(* call) and the assumption that every started fn() settles.               *)
(***************************************************************************)
GateInit ==
    /\ env \in {e \in Envs : e.geminiKeys = 0 /\ ~e.deepseekKey /\ ~e.groqKey}
    /\ inFlight = 0
    /\ waiters = <<>>
    /\ llmStats = InitStats
    /\ call = [c \in 1 .. NumCallers |-> InitCall]
    /\ admitOrder = <<>>
    /\ queueOrder = <<>>

GateNext ==
    \/ \E c \in Calls : Call(c)
    \/ \E c \in Calls : Run(c)
    \/ \E c \in Calls : BodyReturns(c)
    \/ \E c \in Calls : BodyThrows(c)
    \/ \E c \in Calls : Finally(c)

GateSpec == GateInit /\ [][GateNext]_vars

FairGateSpec ==
    /\ GateSpec
    /\ \A c \in 1 .. NumCallers :
        /\ WF_vars(Call(c))
        /\ WF_vars(Run(c))
        /\ WF_vars(BodyReturns(c) \/ BodyThrows(c))
        /\ WF_vars(Finally(c))

(***************************************************************************)
(* RateLimitedSpec: the scenario of one generateQuiz call in which every   *)
(* Gemini attempt is rejected with HTTP 429 and 'Please retry in 3.5s',    *)
(* quickly or after SlowAnswerMs, and the DeepSeek pass succeeds (on its   *)
(* first model, or on a later one after a skippable HTTP 400).  Groq may   *)
(* or may not be configured.                                               *)
(***************************************************************************)
RetryIn3500 == Err(429, <<"RESOURCE_EXHAUSTED", "Quota">>, 3500, -1, <<>>)

\* the adapter answers with which the DeepSeek pass does not fail
DeepSeekPassing(c) ==
    { a \in AdapterAnswers :
        LET o == AdapterOutcome(a, "DeepSeek") IN
        o.ok \/ (deepseekSkips(o.error) /\ call[c].m < Len(DEEPSEEK_MODEL_CANDIDATES)) }

\* the Gemini call rejects with the 429 after d milliseconds
GeminiRateLimited(c) ==
    /\ call[c].pc = "gemini"
    /\ \E d \in {0, SlowAnswerMs} :
         Step(c, GeminiDone(Settling(c, "returns"), Reject(RetryIn3500), d))

\* callDeepSeek settles with an answer that lets the pass succeed
DeepSeekSucceeds(c) ==
    /\ call[c].pc = "deepseek"
    /\ \E a \in DeepSeekPassing(c), sink \in Sinks :
         Step(c, DeepSeekDone(Settling(c, sink), a))

RateLimitedInit ==
    /\ env \in {e \in Envs : e.geminiKeys > 0 /\ e.deepseekKey
                              /\ e.maxConcurrency = MaxConcurrency}
    /\ inFlight = 0
    /\ waiters = <<>>
    /\ llmStats = InitStats
    /\ call = [c \in {1} |-> InitCall]
    /\ admitOrder = <<>>
    /\ queueOrder = <<>>

RateLimitedNext ==
    \/ \E c \in Calls : Call(c)
    \/ \E c \in Calls : Start(c)
    \/ \E c \in Calls : GeminiRateLimited(c)
    \/ \E c \in Calls : Wake(c)
    \/ \E c \in Calls : DeepSeekSucceeds(c)
    \/ \E c \in Calls : Finally(c)

RateLimitedSpec == RateLimitedInit /\ [][RateLimitedNext]_vars

(***************************************************************************)
(* BackoffSpec: one generateQuiz call in which Gemini is busy.  Every      *)
(* Gemini attempt ends with a failure of a retried class: a rejection      *)
(* from BackoffErrors, at once or after SlowAnswerMs, or the 25 s timer.   *)
(* The rejections carry retry hints below the 500 ms floor, between floor  *)
(* and ceiling, at the ceiling, just above it and far above it, in either  *)
(* of the two phrasings, or no hint.  DeepSeek and Groq are configured or  *)
(* not; the pass of the provider that takes over succeeds.                 *)
(***************************************************************************)
BackoffErrors ==
    { Err(429, <<"RESOURCE_EXHAUSTED", "Quota">>, 200, -1, <<>>),    \* retry in 0.2s
      Err(429, <<"RESOURCE_EXHAUSTED", "Quota">>, 3500, -1, <<>>),   \* retry in 3.5s
      Err(429, <<"RESOURCE_EXHAUSTED", "Quota">>, MAX_GEMINI_RETRY_DELAY_MS, -1, <<>>),
      Err(429, <<"RESOURCE_EXHAUSTED", "Quota">>, MAX_GEMINI_RETRY_DELAY_MS + 1, -1, <<>>),
      Err(429, <<"RESOURCE_EXHAUSTED", "Quota">>, -1, 1000, <<>>),   \* retryDelay 1s
      Err(429, <<"RESOURCE_EXHAUSTED", "Quota">>, -1, 40000, <<>>),  \* retryDelay 40s
      Err(429, <<"Rate Limit">>, -1, -1, <<>>),
      Err(503, <<"UNAVAILABLE">>, -1, -1, <<>>) }

\* the adapter answers with which the Groq pass does not fail
GroqPassing(c) ==
    { a \in AdapterAnswers :
        LET o == AdapterOutcome(a, "Groq") IN
        o.ok \/ (groqSkips(o.error) /\ call[c].m < Len(GROQ_MODEL_CANDIDATES)) }

\* callGroq settles with an answer that lets the pass succeed
GroqSucceeds(c) ==
    /\ call[c].pc = "groq"
    /\ \E a \in GroqPassing(c), sink \in Sinks :
         Step(c, GroqDone(Settling(c, sink), a))

\* generateContent rejects with a busy error after d milliseconds
GeminiBusy(c) ==
    /\ call[c].pc = "gemini"
    /\ \E e \in BackoffErrors, d \in {0, SlowAnswerMs} :
         Step(c, GeminiDone(Settling(c, "returns"), Reject(e), d))

BackoffInit ==
    /\ env \in {e \in Envs : e.geminiKeys > 0 /\ e.maxConcurrency = MaxConcurrency}
    /\ inFlight = 0
    /\ waiters = <<>>
    /\ llmStats = InitStats
    /\ call = [c \in {1} |-> InitCall]
    /\ admitOrder = <<>>
    /\ queueOrder = <<>>

BackoffNext ==
    \/ \E c \in Calls : Call(c)
    \/ \E c \in Calls : Start(c)
    \/ \E c \in Calls : GeminiBusy(c)
    \/ \E c \in Calls : GeminiTimesOut(c)
    \/ \E c \in Calls : Wake(c)
    \/ \E c \in Calls : DeepSeekSucceeds(c)
    \/ \E c \in Calls : GroqSucceeds(c)
    \/ \E c \in Calls : Finally(c)

BackoffSpec == BackoffInit /\ [][BackoffNext]_vars

(***************************************************************************)
(* TimeoutSpec: one generateQuiz call with Gemini configured whose Gemini  *)
(* attempts run into the 25 s timer, are refused as overloaded, or return  *)
(* a quiz.  The request of a timed-out attempt stays with the SDK and is   *)
(* answered at any later time, during the call or after its end.           *)
(***************************************************************************)
Overloaded == Err(503, <<"UNAVAILABLE">>, -1, -1, <<>>)

\* the Gemini answers that pass the checks of lines 622-635
GeminiPassing == { a \in GeminiAnswers : GeminiOutcome(a).ok }

\* generateContent resolves with a quiz before the timer
GeminiReturns(c) ==
    /\ call[c].pc = "gemini"
    /\ \E a \in GeminiPassing, sink \in Sinks :
         Step(c, GeminiDone(Settling(c, sink), a, 0))

\* generateContent rejects with 503 before the timer
GeminiOverloaded(c) ==
    /\ call[c].pc = "gemini"
    /\ Step(c, GeminiDone(Settling(c, "returns"), Reject(Overloaded), 0))

\* lines 604-620: generationPromise of an attempt that lost the race settles;
\* the race promise is settled already and nothing else awaits the request
LateAnswer(c) ==
    /\ call[c].abandoned > 0
    /\ call' = [call EXCEPT ![c].abandoned = @ - 1]
    /\ UNCHANGED <<env, inFlight, waiters, llmStats, admitOrder, queueOrder>>

TimeoutInit ==
    /\ env \in {e \in Envs : e.geminiKeys > 0 /\ e.maxConcurrency = MaxConcurrency}
    /\ inFlight = 0
    /\ waiters = <<>>
    /\ llmStats = InitStats
    /\ call = [c \in {1} |-> InitCall]
    /\ admitOrder = <<>>
    /\ queueOrder = <<>>

TimeoutNext ==
    \/ \E c \in Calls : Call(c)
    \/ \E c \in Calls : Start(c)
    \/ \E c \in Calls : GeminiReturns(c)
    \/ \E c \in Calls : GeminiOverloaded(c)
    \/ \E c \in Calls : GeminiTimesOut(c)
    \/ \E c \in Calls : LateAnswer(c)
    \/ \E c \in Calls : Wake(c)
    \/ \E c \in Calls : DeepSeekSettles(c)
    \/ \E c \in Calls : GroqSettles(c)
    \/ \E c \in Calls : Finally(c)

TimeoutSpec == TimeoutInit /\ [][TimeoutNext]_vars

(***************************************************************************)
(* StatsSpec: two generateQuiz calls of one process, admitted by the gate  *)
(* and interleaved at their awaits, with all providers configured.  Gemini *)
(* returns a quiz, refuses with a rate limit, or reports the model missing *)
(* on the first attempt made with it; DeepSeek fails and Groq answers or   *)
(* fails.  The admin surface resets llmStats at any moment (bot.ts:1564).  *)
(***************************************************************************)
RateLimit == Err(429, <<"Rate Limit">>, -1, -1, <<>>)

ModelMissing == Err(404, <<"models/", "not found">>, -1, -1, <<>>)

\* generateContent rejects with a rate limit, or with a missing model on the
\* first attempt with that model
GeminiRefuses(c) ==
    /\ call[c].pc = "gemini"
    /\ \E e \in {RateLimit} \cup (IF call[c].attempt = 0 THEN {ModelMissing} ELSE {}) :
         Step(c, GeminiDone(Settling(c, "returns"), Reject(e), 0))

\* the adapter failures that end a provider's pass
AdapterRefusal == Reject(Err(429, <<"HTTP_429">>, -1, -1, <<"Rate Limit">>))

\* callDeepSeek rejects with HTTP 429
DeepSeekFails(c) ==
    /\ call[c].pc = "deepseek"
    /\ Step(c, DeepSeekDone(Settling(c, "returns"), AdapterRefusal))

\* callGroq settles with a quiz or rejects with HTTP 429
GroqAnswers(c) ==
    /\ call[c].pc = "groq"
    /\ \E a \in GeminiPassing \cup {AdapterRefusal} :
         Step(c, GroqDone(Settling(c, "returns"), a))

\* a reset that zeroes the attempts counters only
resetLlmStatsAttemptsOnly ==
    /\ llmStats' = [llmStats EXCEPT !.geminiAttempts = 0, !.deepseekAttempts = 0,
                                    !.groqAttempts = 0]
    /\ UNCHANGED <<env, inFlight, waiters, call, admitOrder, queueOrder>>

\* resetLlmStats(), lines 448-461
resetLlmStats ==
    /\ llmStats' = InitStats
    /\ UNCHANGED <<env, inFlight, waiters, call, admitOrder, queueOrder>>

StatsInit ==
    /\ env \in {e \in Envs : /\ e.geminiKeys = MaxGeminiKeys
                             /\ e.deepseekKey /\ e.groqKey
                             /\ e.maxConcurrency = MaxConcurrency}
    /\ inFlight = 0
    /\ waiters = <<>>
    /\ llmStats = InitStats
    /\ call = [c \in {1, 2} |-> InitCall]
    /\ admitOrder = <<>>
    /\ queueOrder = <<>>

StatsNext ==
    \/ \E c \in Calls : Call(c)
    \/ \E c \in Calls : Start(c)
    \/ \E c \in Calls : GeminiReturns(c)
    \/ \E c \in Calls : GeminiRefuses(c)
    \/ \E c \in Calls : Wake(c)
    \/ \E c \in Calls : DeepSeekFails(c)
    \/ \E c \in Calls : GroqAnswers(c)
    \/ \E c \in Calls : Finally(c)
    \/ resetLlmStats

StatsSpec == StatsInit /\ [][StatsNext]_vars

(***************************************************************************)
(* AdapterSpec: one callDeepSeek or callGroq call (lines 222-292 and       *)
(* 294-369, the same code but for names), with or without an API key and   *)
(* with LLM_JSON_MODE on or off.  The upstream answers each request with   *)
(* 200 and a content or none, or with a non-2xx status and a body, or the  *)
(* fetch itself rejects.  sent and got are the history of the requests     *)
(* sent and of the responses received.                                     *)
(***************************************************************************)
Http(status, body, content) == [status |-> status, body |-> body, content |-> content]

HttpResponses ==
    { Http(200, <<>>, "{\"questions\":[Q1]}"),
      Http(200, <<>>, ""),                               \* content null or ''
      Http(400, <<"response_format">>, ""),
      Http(400, <<"unsupported", "Response_Format">>, ""),
      Http(400, <<"invalid_request_error">>, ""),
      Http(400, <<>>, ""),                               \* res.text() failed
      Http(429, <<"Rate Limit">>, ""),
      Http(500, <<"response_format">>, "") }

\* res.ok
Ok(r) == r.status >= 200 /\ r.status <= 299

AdapterCall(provider, hasKey, wantJson) ==
    [ pc |-> "called",
      provider |-> provider,
      hasKey |-> hasKey,          \* the provider's API key is set
      wantJson |-> wantJson,      \* LLM_JSON_MODE is not '0'
      sent |-> <<>>,              \* history: per request, whether it carries response_format
      got |-> <<>>,               \* history: the responses received
      result |-> [status |-> "pending", content |-> "", error |-> NoError] ]

AdapterThrows(x, e) ==
    [x EXCEPT !.pc = "done", !.result = [status |-> "thrown", content |-> "", error |-> e]]

AdapterReturns(x, content) ==
    [x EXCEPT !.pc = "done",
              !.result = [status |-> "returned", content |-> content, error |-> NoError]]

\* fetch(url, {body: JSON.stringify(...)}) up to its await
Fetch(x, json, pc) == [x EXCEPT !.pc = pc, !.sent = Append(@, [response_format |-> json])]

\* lines 269-275: the error of a non-2xx response
HttpError(r) == Err(r.status, << "HTTP_" \o ToString(r.status) >>, -1, -1, r.body)

\* lines 226-249: up to the first await
AdapterBegin(x) ==
    IF ~x.hasKey THEN AdapterThrows(x, NewError(x.provider \o "_API_KEY missing"))
    ELSE Fetch(x, x.wantJson, "first")

\* lines 269-291: the response r is the one the call goes by
AdapterResponse(x, r) ==
    IF ~Ok(r) THEN AdapterThrows(x, HttpError(r))
    ELSE IF r.content = "" THEN AdapterThrows(x, NewError("Empty response from " \o x.provider))
    ELSE AdapterReturns(x, r.content)

\* a compatibility fallback that repeats the request on every HTTP 400
AfterFirstEvery400(x, r) ==
    IF ~Ok(r) /\ x.wantJson /\ r.status = 400
    THEN Fetch(x, FALSE, "second")
    ELSE AdapterResponse(x, r)

\* lines 251-267, then 269-291: the first response r
AfterFirst(x, r) ==
    IF ~Ok(r) /\ x.wantJson /\ r.status = 400
    THEN IF Includes(ToLowerCase(r.body), "response_format")
         THEN Fetch(x, FALSE, "second")
         ELSE AdapterThrows(x, HttpError(r))
    ELSE AdapterResponse(x, r)

AdapterStep(c, x) ==
    /\ call' = [call EXCEPT ![c] = x]
    /\ UNCHANGED <<env, inFlight, waiters, llmStats, admitOrder, queueOrder>>

\* callGroq / callDeepSeek is called
AdapterCalled(c) ==
    /\ call[c].pc = "called"
    /\ AdapterStep(c, AdapterBegin(call[c]))

\* the first fetch resolves
FirstAnswer(c) ==
    /\ call[c].pc = "first"
    /\ \E r \in HttpResponses :
         AdapterStep(c, AfterFirst([call[c] EXCEPT !.got = Append(@, r)], r))

\* the second fetch resolves
SecondAnswer(c) ==
    /\ call[c].pc = "second"
    /\ \E r \in HttpResponses :
         AdapterStep(c, AdapterResponse([call[c] EXCEPT !.got = Append(@, r)], r))

\* a fetch rejects (network failure): the rejection leaves the adapter
FetchRejects(c) ==
    /\ call[c].pc \in {"first", "second"}
    /\ AdapterStep(c, AdapterThrows(call[c], NewError("fetch failed")))

AdapterInit ==
    /\ env \in {e \in Envs : e.geminiKeys = 0 /\ e.maxConcurrency = MaxConcurrency}
    /\ inFlight = 0
    /\ waiters = <<>>
    /\ llmStats = InitStats
    /\ \E provider \in {"DeepSeek", "Groq"}, wantJson \in BOOLEAN :
         call = [c \in {1} |->
                   AdapterCall(provider,
                               IF provider = "DeepSeek" THEN env.deepseekKey ELSE env.groqKey,
                               wantJson)]
    /\ admitOrder = <<>>
    /\ queueOrder = <<>>

AdapterNext ==
    \/ \E c \in Calls : AdapterCalled(c)
    \/ \E c \in Calls : FirstAnswer(c)
    \/ \E c \in Calls : SecondAnswer(c)
    \/ \E c \in Calls : FetchRejects(c)

AdapterSpec == AdapterInit /\ [][AdapterNext]_vars

(***************************************************************************)
(* FetchSpec: one fetchWithRetry(url) call (bot.ts:1069-1088), the only    *)
(* HTTP helper of the repository with a request timeout and retries; the   *)
(* bot downloads the user's file with it (bot.ts:1800).  Each fetch        *)
(* resolves with a 2xx or a non-2xx response, rejects (network failure),   *)
(* or is aborted by AbortSignal.timeout where the runtime has it.  tried   *)
(* and waits are the history of the outcomes and of the waits.             *)
(***************************************************************************)
\* bot.ts:1070
maxRetries == 3
\* bot.ts:1075
FETCH_TIMEOUT_MS == 30000
\* bot.ts:1083
FETCH_WAIT_MS == 1500

FetchOutcomes == {"ok", "http error", "network failure", "aborted"}

FetchCall(hasTimeout) ==
    [ pc |-> "called",
      hasTimeout |-> hasTimeout,   \* AbortSignal.timeout exists
      attempt |-> 0,
      tried |-> <<>>,              \* history: the outcome of every fetch
      waits |-> <<>>,              \* history: every waitMs slept
      limit |-> 0,                 \* the abort delay of the fetch under way, 0 for none
      result |-> "pending" ]

\* bot.ts:1073-1076: fetch(url, {signal: AbortSignal.timeout?.(30000)})
FetchBegin(x) ==
    [x EXCEPT !.pc = "fetching",
              !.limit = IF x.hasTimeout THEN FETCH_TIMEOUT_MS ELSE 0]

\* bot.ts:1077-1085: the fetch settled with outcome o
FetchSettled(x, o) ==
    LET x1 == [x EXCEPT !.tried = Append(@, o), !.limit = 0] IN
    IF o = "ok" THEN [x1 EXCEPT !.pc = "done", !.result = "returned"]
    ELSE IF x.attempt >= maxRetries THEN [x1 EXCEPT !.pc = "done", !.result = "thrown"]
    ELSE [x1 EXCEPT !.pc = "waiting",
                    !.waits = Append(@, FETCH_WAIT_MS * Pow2(x.attempt))]

\* bot.ts:1084 and 1071: the wait is over, attempt++, the loop goes on
FetchWaited(x) ==
    IF x.attempt + 1 <= maxRetries
    THEN FetchBegin([x EXCEPT !.attempt = @ + 1])
    ELSE [x EXCEPT !.pc = "done", !.result = "thrown"]

\* fetchWithRetry is called
FetchCalled(c) ==
    /\ call[c].pc = "called"
    /\ AdapterStep(c, FetchBegin(call[c]))

\* the fetch resolves or rejects
FetchSettles(c) ==
    /\ call[c].pc = "fetching"
    /\ \E o \in FetchOutcomes \ (IF call[c].hasTimeout THEN {} ELSE {"aborted"}) :
         AdapterStep(c, FetchSettled(call[c], o))

\* the timer of the wait fires
FetchWakes(c) ==
    /\ call[c].pc = "waiting"
    /\ AdapterStep(c, FetchWaited(call[c]))

FetchInit ==
    /\ env \in {e \in Envs : e.geminiKeys = 0 /\ ~e.deepseekKey /\ ~e.groqKey
                              /\ e.maxConcurrency = MaxConcurrency}
    /\ inFlight = 0
    /\ waiters = <<>>
    /\ llmStats = InitStats
    /\ \E hasTimeout \in BOOLEAN : call = [c \in {1} |-> FetchCall(hasTimeout)]
    /\ admitOrder = <<>>
    /\ queueOrder = <<>>

FetchNext ==
    \/ \E c \in Calls : FetchCalled(c)
    \/ \E c \in Calls : FetchSettles(c)
    \/ \E c \in Calls : FetchWakes(c)

FetchSpec == FetchInit /\ [][FetchNext]_vars

(***************************************************************************)
(* BotSpec: the difficulty-selection handler, bot.action(/diff_(.+)/) of   *)
(* bot.ts:1978-2119, run for up to MaxUpdates button presses of one user,  *)
(* one after the other, on that user's session.  generateQuiz is taken by  *)
(* its outcome (it throws, or returns some number of questions that pass   *)
(* the duplicate filter); every awaited Telegram call may reject.  Time is *)
(* kept as the age of processingStartedAt: "none" (unset), "fresh" (less   *)
(* than 60 s ago) or "stale".  The day does not change between presses.    *)
(***************************************************************************)
\* the presses of the difficulty button modelled
MaxUpdates == 2
\* the largest session.questionCount modelled
MaxQuestionCount == 2
\* the most daily questions the user has left at the start
MaxDailyLeft == 1

\* pc is the await the handler is suspended at:
\*   idle      the update is not yet delivered
\*   acking    lines 1996-1998, the three awaits before the try
\*   quiz1     line 2009, awaiting generateQuiz
\*   quiz2     line 2037, awaiting the top-up generateQuiz
\*   deleting  line 2063, awaiting deleteMessage
\*   announce  lines 2089-2090 / 2099-2100, awaiting the two replies
\*   limit     line 2093 / 2108, awaiting the dailyLimitReached reply
\*   sending   lines 2096-2097 / 2111-2112, warning and first question
\*   done      the handler's promise settled
BotCall(hasSession, questionType, questionCount, left, hasUser) ==
    [ pc |-> "idle",
      hasSession |-> hasSession,         \* session, fileText and questionCount present
      questionType |-> questionType,     \* session.questionType
      questionCount |-> questionCount,   \* session.questionCount
      left |-> left,                     \* getRemainingDailyQuestions(session)
      hasUser |-> hasUser,               \* ctx.from.id present
      isProcessing |-> FALSE,            \* session.isProcessing
      startedAt |-> "none",              \* age of session.processingStartedAt
      awaitingOpenAnswer |-> FALSE,      \* session.awaitingOpenAnswer
      totalQuestions |-> 0,              \* session.totalQuestions
      accepted |-> 0,                    \* accepted.length
      \* history
      updates |-> 0,                     \* presses delivered
      set |-> FALSE,                     \* this run executed line 1993
      exit |-> "none" ]                  \* the path by which the last run ended

\* the handler's promise settles by path e
BotExit(x, e) == [x EXCEPT !.pc = "done", !.exit = e]

\* lines 2114-2117: the catch block
BotCatch(x) == BotExit([x EXCEPT !.isProcessing = FALSE, !.startedAt = "none"], "error")

\* consumeDailyQuestions(session, 1), lines 656-665 (session present)
consumeDailyQuestions(x) ==
    IF x.left < 1 THEN [ok |-> FALSE, x |-> x]
    ELSE [ok |-> TRUE, x |-> [x EXCEPT !.left = @ - 1]]

\* lines 1979-1994: the guards and the marking of the session
BotBegin(x) ==
    LET x1 == [x EXCEPT !.updates = @ + 1, !.set = FALSE, !.accepted = 0, !.exit = "none"] IN
    IF ~x.hasSession THEN BotExit(x1, "expired")
    ELSE IF x.isProcessing /\ x.startedAt = "fresh" THEN BotExit(x1, "busy")
    ELSE [x1 EXCEPT !.isProcessing = TRUE, !.startedAt = "fresh", !.set = TRUE,
                    !.pc = "acking"]

\* lines 1996-2009: safeAnswerCbQuery and safeEditMessageText swallow their
\* errors, ctx.reply(analyzing) is outside the try
BotAcked(x, ok) ==
    IF ok THEN [x EXCEPT !.pc = "quiz1"] ELSE BotExit(x, "rejected")

\* lines 2009-2033: quiz1 arrived with n questions that pass the filter
BotQuiz1(x, n) ==
    IF n < x.questionCount
    THEN [x EXCEPT !.accepted = n, !.pc = "quiz2"]
    ELSE [x EXCEPT !.accepted = n, !.pc = "deleting"]

\* lines 2037-2055: quiz2 arrived with n more; the loop stops at questionCount
BotQuiz2(x, n) ==
    [x EXCEPT !.accepted = Min(x.questionCount, x.accepted + n), !.pc = "deleting"]

\* lines 2063-2087: the analyzing message is deleted
BotDeleted(x) ==
    IF x.accepted = 0
    THEN BotExit([x EXCEPT !.isProcessing = FALSE, !.startedAt = "none"], "noMoreUnique")
    ELSE [x EXCEPT !.totalQuestions = Min(Min(x.questionCount, x.accepted), x.left),
                   !.awaitingOpenAnswer = (x.questionType = "open") \/ @,
                   !.pc = "announce"]

\* lines 2091-2095 and 2102-2110: after the two replies
BotAnnounced(x) ==
    LET r == consumeDailyQuestions(x) IN
    IF x.questionType = "open"
    THEN IF ~r.ok
         THEN [x EXCEPT !.awaitingOpenAnswer = FALSE, !.pc = "limit"]
         ELSE [r.x EXCEPT !.pc = "sending"]
    ELSE IF ~x.hasUser THEN BotExit(x, "noUser")
         ELSE IF ~r.ok THEN [x EXCEPT !.pc = "limit"]
         ELSE [r.x EXCEPT !.pc = "sending"]

\* lines 2094-2095 / 2108-2109: `return` after the dailyLimitReached reply
BotLimitReplied(x) == BotExit(x, "dailyLimit")

\* lines 2096-2112: the first question went out
BotSent(x) ==
    BotExit([x EXCEPT !.isProcessing = FALSE, !.startedAt = "none"], "delivered")

\* the user presses a difficulty button
BotUpdate(c) ==
    /\ call[c].pc = "idle"
    /\ AdapterStep(c, BotBegin(call[c]))

\* the awaits before the try settle
BotAcks(c) ==
    /\ call[c].pc = "acking"
    /\ \E ok \in BOOLEAN : AdapterStep(c, BotAcked(call[c], ok))

\* generateQuiz settles
BotGenerates(c) ==
    /\ call[c].pc \in {"quiz1", "quiz2"}
    /\ \/ AdapterStep(c, BotCatch(call[c]))
       \/ \E n \in 0 .. Max(1, call[c].questionCount * 3) :
            /\ call[c].pc = "quiz1"
            /\ AdapterStep(c, BotQuiz1(call[c], n))
       \/ \E n \in 0 .. call[c].questionCount - call[c].accepted :
            /\ call[c].pc = "quiz2"
            /\ AdapterStep(c, BotQuiz2(call[c], n))

\* an awaited Telegram call inside the try settles
BotTelegram(c) ==
    /\ call[c].pc \in {"deleting", "announce", "limit", "sending"}
    /\ \/ AdapterStep(c, BotCatch(call[c]))
       \/ /\ call[c].pc = "deleting"
          /\ AdapterStep(c, BotDeleted(call[c]))
       \/ /\ call[c].pc = "announce"
          /\ AdapterStep(c, BotAnnounced(call[c]))
       \/ /\ call[c].pc = "limit"
          /\ AdapterStep(c, BotLimitReplied(call[c]))
       \/ /\ call[c].pc = "sending"
          /\ AdapterStep(c, BotSent(call[c]))

\* the handler is over; before the next press a minute may pass
BotIdle(c) ==
    /\ call[c].pc = "done"
    /\ call[c].updates < MaxUpdates
    /\ \E late \in BOOLEAN :
         AdapterStep(c, [call[c] EXCEPT !.pc = "idle",
                            !.startedAt = IF late /\ @ = "fresh" THEN "stale" ELSE @])

BotInit ==
    /\ env \in {e \in Envs : e.geminiKeys = 0 /\ ~e.deepseekKey /\ ~e.groqKey
                              /\ e.maxConcurrency = MaxConcurrency}
    /\ inFlight = 0
    /\ waiters = <<>>
    /\ llmStats = InitStats
    /\ \E hasSession, hasUser \in BOOLEAN : \E questionType \in {"poll", "open"} :
       \E questionCount \in 1 .. MaxQuestionCount : \E left \in 0 .. MaxDailyLeft :
          call = [c \in {1} |->
                    BotCall(hasSession, questionType, questionCount, left, hasUser)]
    /\ admitOrder = <<>>
    /\ queueOrder = <<>>

BotNext ==
    \/ \E c \in Calls : BotUpdate(c)
    \/ \E c \in Calls : BotAcks(c)
    \/ \E c \in Calls : BotGenerates(c)
    \/ \E c \in Calls : BotTelegram(c)
    \/ \E c \in Calls : BotIdle(c)

BotSpec == BotInit /\ [][BotNext]_vars

(***************************************************************************)
(* ParserSpec: safeJsonParse applied to one provider text.  The texts are  *)
(* built from JSON values: every value of a small universe is written out  *)
(* as JSON.stringify writes it and then wrapped in prose and code fences,  *)
(* given trailing commas, cut short, or followed by other text.  The       *)
(* strings of the universe hold the characters the sanitizer looks for.    *)
(***************************************************************************)
\* the characters of a string literal for the string chars
RECURSIVE Escaped(_)
Escaped(chars) ==
    IF chars = <<>> THEN <<>>
    ELSE (IF Head(chars) \in {Quote, Backslash}
          THEN <<Backslash, Head(chars)>>
          ELSE <<Head(chars)>>) \o Escaped(Tail(chars))

\* the JSON text of value v, without white space; with tc, every non-empty
\* array and object has a trailing comma directly before its closer
RECURSIVE Stringify(_, _)
RECURSIVE StringifyItems(_, _, _)
StringifyItems(v, i, tc) ==
    IF i > Len(v.e) THEN <<>>
    ELSE LET step == IF v.t = "obj" THEN 2 ELSE 1
             item == IF v.t = "obj"
                     THEN Stringify(v.e[i], tc) \o <<":">> \o Stringify(v.e[i + 1], tc)
                     ELSE Stringify(v.e[i], tc)
             comma == IF i + step <= Len(v.e) \/ tc THEN <<",">> ELSE <<>>
         IN  item \o comma \o StringifyItems(v, i + step, tc)

Stringify(v, tc) ==
    CASE v.t = "str" -> <<Quote>> \o Escaped(v.s) \o <<Quote>>
      [] v.t = "arr" -> <<"[">> \o StringifyItems(v, 1, tc) \o <<"]">>
      [] v.t = "obj" -> <<"{">> \o StringifyItems(v, 1, tc) \o <<"}">>
      [] OTHER -> v.s

\* strings: plain, a comma before a closer, closers, an opener, a quote,
\* a backslash
Strings ==
    { <<"a">>, <<",", "}">>, <<"]">>, <<"{">>, <<Quote>>, <<Backslash>> }

Scalars == {Str(x) : x \in Strings} \cup {Num(<<"1">>)}

\* the sequences over S of length at most n
RECURSIVE SeqsUpTo(_, _)
SeqsUpTo(S, n) ==
    IF n = 0 THEN {<<>>}
    ELSE LET shorter == SeqsUpTo(S, n - 1)
         IN  shorter \cup {Append(q, x) : q \in shorter, x \in S}

KeyA == Str(<<"a">>)

\* arrays of scalars, and objects holding a scalar or an array of one scalar
Values ==
    {Arr(q) : q \in SeqsUpTo(Scalars, MaxElements)}
      \cup {Obj(<<>>)}
      \cup {Obj(<<KeyA, x>>) : x \in Scalars}
      \cup {Obj(<<KeyA, Arr(<<x>>)>>) : x \in Scalars}

\* leading prose: none, plain, with a bracket pair, with a lone brace
Leads ==
    { <<>>,
      <<"H", "e", "r", "e", ":", " ">>,
      <<"s", "e", "e", " ", "[", "1", "]", " ">>,
      <<"a", " ", "{", " ", "b", " ">> }

\* code fences: none, a tagged fence on lines of its own, a bare fence
Fences ==
    { << <<>>, <<>> >>,
      << <<Backtick, Backtick, Backtick, "j", "s", "o", "n", Newline>>,
         <<Newline, Backtick, Backtick, Backtick>> >>,
      << Fence, Fence >> }

\* trailing prose: none, plain, with closers
Trails ==
    { <<>>, <<" ", "o", "k">>, <<Newline, "}", " ", "]">> }

\* a text given to safeJsonParse, with what it was built from: the family,
\* the value, the JSON text embedded in raw, and whether that text is whole
Input(family, raw, value, embedded, whole) ==
    [family |-> family, raw |-> raw, value |-> value, embedded |-> embedded,
     whole |-> whole]

\* well-formed JSON wrapped in optional fences and prose
WrappedInputs ==
    { Input("wrapped", l \o f[1] \o Stringify(v, FALSE) \o f[2] \o t,
            v, Stringify(v, FALSE), TRUE) :
        v \in Values, l \in Leads, f \in Fences, t \in Trails }

\* JSON that is well-formed except for trailing commas before closers
CommaInputs ==
    { Input("commas", Stringify(v, TRUE), v, Stringify(v, FALSE), TRUE) :
        v \in {w \in Values : w.e # <<>>} }

\* the complete objects of a "questions" array
QuestionObjects ==
    { Obj(<<KeyA, Num(<<"1">>)>>),
      Obj(<<KeyA, Str(<<"}">>)>>),
      Obj(<<KeyA, Str(<<Quote>>), Str(<<"b">>), Obj(<<KeyA, Arr(<<Num(<<"1">>)>>)>>)>>),
      Obj(<<KeyA, Str(<<",", "}">>)>>) }

\* what follows the last complete object when the text was cut: nothing,
\* a comma, the start of an object, a cut inside a string that holds a
\* closer, a cut after a complete inner object, a cut after an escaped quote
Remainders ==
    { <<>>,
      <<",">>,
      <<",", "{", Quote, "c", Quote, ":">>,
      <<",", "{", Quote, "c", Quote, ":", Quote, "x", "}">>,
      <<",", "{", Quote, "c", Quote, ":", "{", Quote, "d", Quote, ":", "1", "}">>,
      <<",", " ", "{", Quote, "c", Quote, ":", Quote, Backslash, Quote, "}">> }

QuestionsOpen == <<"{">> \o QuestionsKey \o <<":", "[">>

\* the texts of the objects objs separated by commas
RECURSIVE Joined(_)
Joined(objs) ==
    IF objs = <<>> THEN <<>>
    ELSE Stringify(Head(objs), FALSE)
           \o (IF Len(objs) > 1 THEN <<",">> ELSE <<>>) \o Joined(Tail(objs))

QuestionsOf(objs) == Obj(<<Str(SubSeq(QuestionsKey, 2, Len(QuestionsKey) - 1)), Arr(objs)>>)

\* a "questions" array of N >= 1 complete objects, cut before it closes
TruncatedInputs ==
    { Input("truncated", QuestionsOpen \o Joined(objs) \o r,
            QuestionsOf(objs), QuestionsOpen \o Joined(objs), FALSE) :
        objs \in SeqsUpTo(QuestionObjects, MaxObjects) \ {<<>>}, r \in Remainders }

\* balanced elements that JSON.parse rejects, sanitized or not: a member
\* without value, a bare word, a string holding a closer followed by a number
BadElements ==
    { <<"{", Quote, "c", Quote, ":", "}">>,
      <<"{", "b", "}">>,
      <<"{", Quote, "c", Quote, ":", Quote, "}", Quote, " ", "1", "}">> }

\* the complete objects that sanitizing leaves as they are
PlainObjects == QuestionObjects \ { Obj(<<KeyA, Str(<<",", "}">>)>>) }

\* what follows the element that does not parse: the end of the array, a
\* further complete object and the end, a cut element, or nothing
Endings ==
    { <<"]", "}">>,
      <<",", "{", Quote, "a", Quote, ":", "1", "}", "]", "}">>,
      <<",", "{", Quote, "c", Quote, ":">>,
      <<>> }

\* the texts of the objects objs, each followed by a comma
RECURSIVE Listed(_)
Listed(objs) ==
    IF objs = <<>> THEN <<>>
    ELSE Stringify(Head(objs), FALSE) \o <<",">> \o Listed(Tail(objs))

\* a "questions" array with a balanced element that does not parse after
\* N >= 0 complete objects, and a "questions" array of N >= 1 complete
\* objects followed by an element that is never balanced
ElementInputs ==
    { Input("elements", QuestionsOpen \o Listed(objs) \o bad \o t, Undefined, bad, TRUE) :
        objs \in SeqsUpTo(PlainObjects, MaxObjects), bad \in BadElements, t \in Endings }
    \cup
    { Input("elements", QuestionsOpen \o Joined(objs) \o r,
            QuestionsOf(objs), QuestionsOpen \o Joined(objs), FALSE) :
        objs \in SeqsUpTo(PlainObjects, MaxObjects) \ {<<>>},
        r \in {x \in Remainders : Len(x) > 1} }

\* what follows the first value in the text: closers and a string literal
Suffixes ==
    { <<>>, <<" ", "]", "}">>, <<"}", " ", Quote, "x", Quote>>, <<Newline, "]">> }

\* the positions of the characters of text that lie inside a string literal
\* (after its opening quote, escapes included): where a cut leaves the
\* literal unterminated
RECURSIVE InsideString(_, _, _, _)
InsideString(text, i, inStr, esc) ==
    IF i > Len(text) THEN {}
    ELSE IF inStr
         THEN (IF esc \/ text[i] # Quote THEN {i} ELSE {})
                \cup InsideString(text, i + 1, esc \/ text[i] # Quote,
                                  ~esc /\ text[i] = Backslash)
         ELSE InsideString(text, i + 1, text[i] = Quote, FALSE)

\* a first value followed by other text, and a first value cut inside one of
\* its string literals and followed by closers only
BalanceInputs ==
    { Input("balance", l \o Stringify(v, FALSE) \o t, v, Stringify(v, FALSE), TRUE) :
        v \in Values, l \in {<<>>, <<"H", "e", "r", "e", ":", " ">>}, t \in Suffixes }
    \cup
    UNION { { Input("balance", SubSeq(Stringify(v, FALSE), 1, k) \o t, v,
                    SubSeq(Stringify(v, FALSE), 1, k), FALSE) :
                k \in InsideString(Stringify(v, FALSE), 1, FALSE, FALSE),
                t \in {<<"}">>, <<" ", "]", "}">>} } :
            v \in {w \in Values : Len(w.e) = 1} }

\* a text longer than the diagnostic body
RECURSIVE Repeated(_, _)
Repeated(ch, n) ==
    IF n = 0 THEN <<>>
    ELSE LET half == Repeated(ch, n \div 2)
         IN  half \o half \o (IF n % 2 = 1 THEN <<ch>> ELSE <<>>)

LongText == Repeated("x", BODY_LIMIT + 50)

\* texts that are no JSON and hold no recoverable "questions" array
FailureInputs ==
    { Input("failure", raw, Undefined, <<>>, FALSE) :
        raw \in { <<>>,
                  <<" ", Newline, " ">>,
                  <<"n", "o", "t", " ", "j", "s", "o", "n">>,
                  QuestionsOpen,
                  QuestionsOpen \o <<"{", Quote, "a">>,
                  QuestionsOpen \o <<"{", Quote, "a", Quote, ":", "t", "r", "u", "}", ",",
                                     "{", Quote, "b", Quote, ":", "1", "}", ",", "{">>,
                  <<"x", " ">> \o QuestionsKey \o <<" ", ":", " ", "[", " ", ",", " ">>,
                  QuestionsKey \o <<":", "[", "{", Quote, "a", Quote, ":", "1", Quote>>,
                  LongText,
                  <<"{">> \o LongText,
                  <<" ", "[">> \o LongText \o <<",", " ", "]", Newline>> } }

ParserInputs ==
    WrappedInputs \cup CommaInputs \cup TruncatedInputs \cup BalanceInputs \cup FailureInputs
      \cup ElementInputs

\* the state of one safeJsonParse call
ParserCall(input) ==
    [ pc |-> "called",
      input |-> input,
      cleaned |-> <<>>,          \* line 210
      balanced |-> NotFound,     \* history: what line 130 got
      result |-> [status |-> "pending", value |-> Undefined, body |-> <<>>] ]

\* line 210: const cleaned = sanitizeJsonString(raw)
Sanitize(c) ==
    /\ call[c].pc = "called"
    /\ call' = [call EXCEPT ![c].pc = "sanitized",
                            ![c].cleaned = sanitizeJsonString(call[c].input.raw),
                            ![c].balanced = extractFirstBalancedJson(Unwrap(call[c].input.raw))]
    /\ UNCHANGED <<env, inFlight, waiters, llmStats, admitOrder, queueOrder>>

\* lines 211-212: JSON.parse(cleaned) succeeds
StrictParse(c) ==
    /\ call[c].pc = "sanitized"
    /\ JsonParse(call[c].cleaned).ok
    /\ call' = [call EXCEPT ![c].pc = "done",
                            ![c].result = safeJsonParseText(call[c].input.raw)]
    /\ UNCHANGED <<env, inFlight, waiters, llmStats, admitOrder, queueOrder>>

\* lines 213-219: JSON.parse(cleaned) throws; recover or throw
RecoverOrThrow(c) ==
    /\ call[c].pc = "sanitized"
    /\ ~JsonParse(call[c].cleaned).ok
    /\ call' = [call EXCEPT ![c].pc = "done",
                            ![c].result = safeJsonParseText(call[c].input.raw)]
    /\ UNCHANGED <<env, inFlight, waiters, llmStats, admitOrder, queueOrder>>

ParserInit ==
    /\ env \in {e \in Envs : e.geminiKeys = 0 /\ ~e.deepseekKey /\ ~e.groqKey
                              /\ e.maxConcurrency = MaxConcurrency}
    /\ inFlight = 0
    /\ waiters = <<>>
    /\ llmStats = InitStats
    /\ \E input \in ParserInputs : call = [c \in {1} |-> ParserCall(input)]
    /\ admitOrder = <<>>
    /\ queueOrder = <<>>

ParserNext ==
    \/ \E c \in Calls : Sanitize(c)
    \/ \E c \in Calls : StrictParse(c)
    \/ \E c \in Calls : RecoverOrThrow(c)

ParserSpec == ParserInit /\ [][ParserNext]_vars

(***************************************************************************)
(* Properties of the concurrency gate.                                     *)
(***************************************************************************)
Range(q) == {q[i] : i \in DOMAIN q}

Running == {c \in Calls : call[c].pc = "running"}

\* C1: in every reachable state 0 <= inFlight <= MAX_GLOBAL_CONCURRENCY, and
\* the number of bodies started and not yet finished never exceeds the
\* maximum, also when more callers than the maximum arrive at once.
C1_GateBound ==
    /\ 0 <= inFlight
    /\ inFlight <= env.maxConcurrency
    /\ Cardinality(Running) <= env.maxConcurrency

\* C1 witness: the gate is saturated by running bodies while callers queue
C1_Witness ==
    /\ Cardinality(Running) = env.maxConcurrency
    /\ inFlight = env.maxConcurrency
    /\ Len(waiters) >= 2

\* the callers granted a slot after queueing, in the order of the grants
AdmittedFromQueue == SelectSeq(admitOrder, LAMBDA c : c \in Range(queueOrder))

\* C2: callers that queued in acquire() are granted a slot strictly in the
\* order they queued, and no caller is granted a slot while an earlier
\* caller is still queued: a grant goes to the head of the queue, or to a
\* newcomer only when nobody is queued.
C2_GateFifo ==
    /\ [](AdmittedFromQueue = SubSeq(queueOrder, 1, Len(AdmittedFromQueue)))
    /\ [][ Len(admitOrder') > Len(admitOrder) =>
             LET c == admitOrder'[Len(admitOrder')] IN
             \/ waiters = <<>>
             \/ c = Head(waiters) ]_vars

\* C2 witness: two callers queued one after the other and both were
\* admitted, the second of them having arrived in the instant between the
\* release that woke the first and the first's resumption
C2_Witness ==
    /\ Len(queueOrder) >= 2
    /\ Len(AdmittedFromQueue) >= 2
    /\ call[queueOrder[2]].raced

AllDone == \A c \in Calls : call[c].pc = "done"

\* C3: with more callers than the maximum, if every started body settles,
\* every caller is eventually admitted and completes, and from then on
\* inFlight = 0 and nobody is queued.
C3_GateLiveness == <>[](AllDone /\ inFlight = 0 /\ waiters = <<>>)

\* C3 witness: all callers completed, some of them after having queued
C3_Witness ==
    /\ AllDone
    /\ Cardinality(Calls) > env.maxConcurrency
    /\ Len(queueOrder) >= 2
    /\ inFlight = 0

(***************************************************************************)
(* Properties of one generateQuiz call.                                    *)
(***************************************************************************)
\* the positions at which a call holds a slot of the gate
HoldsSlot(c) ==
    call[c].pc \in {"admitted", "running", "gemini", "sleep", "deepseek", "groq", "settled"}

Over(c) == call[c].pc \in {"settled", "done"}

\* C4: every generateQuiz call performs exactly one acquire() and exactly one
\* release(), whatever the attempts, sleeps and fallback calls it makes, and
\* the release happens on every exit path, so no slot leaks.
C4_ScopedAcquisition ==
    /\ \A c \in Calls :
        /\ call[c].pc = "idle" => call[c].acquires = 0 /\ call[c].releases = 0
        /\ call[c].pc \notin {"idle", "done"} => call[c].acquires = 1 /\ call[c].releases = 0
        /\ call[c].pc = "done" => call[c].acquires = 1 /\ call[c].releases = 1
    /\ inFlight = Cardinality({c \in Calls : HoldsSlot(c)})

\* C4 witness: a call that retried Gemini, fell back and failed is done and
\* has released its slot
C4_Witness ==
    \E c \in Calls :
        /\ call[c].pc = "done"
        /\ call[c].result.status = "thrown"
        /\ llmStats.geminiAttempts >= 2
        /\ llmStats.deepseekFail = 1
        /\ call[c].releases = 1
        /\ inFlight = 0

\* C5: generateQuiz never resolves with a value whose questions member is
\* missing or not an array: it returns an object with a questions array or
\* it throws.
C5_QuestionsArray ==
    \A c \in Calls :
        /\ Over(c) => call[c].result.status \in {"returned", "thrown"}
        /\ ~Over(c) => call[c].result.status = "pending"
        /\ call[c].result.status = "returned" =>
             /\ ~call[c].result.quiz.isNull
             /\ call[c].result.quiz.hasQuestions
             /\ call[c].result.quiz.questionsIsArray

\* C5 witness: the call returned a quiz obtained from the Groq fallback
C5_Witness ==
    \E c \in Calls :
        /\ call[c].result.status = "returned"
        /\ llmStats.lastProvider = "groq"
        /\ llmStats.geminiFail >= 1

NoProviderConfigured == ~canUseGemini /\ ~canUseDeepSeek /\ ~canUseGroq

\* C6: with no Gemini, DeepSeek or Groq key, generateQuiz fails with the
\* no-provider error, makes no provider call and changes no field of llmStats.
C6_NoProvider ==
    NoProviderConfigured =>
        /\ llmStats = InitStats
        /\ \A c \in Calls :
            /\ call[c].requests = 0
            /\ call[c].pc \notin {"gemini", "sleep", "deepseek", "groq"}
            /\ Over(c) => call[c].result = Threw(<< "No LLM provider configured." >>)

\* C6 witness: the call has failed in an environment without any key
C6_Witness ==
    /\ NoProviderConfigured
    /\ \E c \in Calls : call[c].pc = "done" /\ call[c].result.status = "thrown"

InsufficientTexts == {"Insufficient content", "{\"questions\":[]}"}

InsufficientContent == Threw(<< "Insufficient content" >>)

\* C7: when a Gemini attempt answers with a text that contains 'insufficient
\* content' or whose questions array is empty, the call fails at once with
\* 'Insufficient content': no sleep, no further Gemini attempt, no key or
\* model rotation, no DeepSeek or Groq call.
C7_GeminiInsufficient ==
    [][ \A c \in Calls :
          ( /\ call[c].pc = "gemini"
            /\ call'[c] # call[c]
            /\ call'[c].seen.kind = "text"
            /\ call'[c].seen.text \in InsufficientTexts )
          => /\ call'[c].pc = "settled"
             /\ call'[c].result = InsufficientContent
             /\ call'[c].requests = call[c].requests
             /\ call'[c].keyIndex = call[c].keyIndex
             /\ call'[c].modelIndex = call[c].modelIndex
             /\ llmStats'.geminiAttempts = llmStats.geminiAttempts
             /\ llmStats'.deepseekAttempts = llmStats.deepseekAttempts
             /\ llmStats'.groqAttempts = llmStats.groqAttempts ]_vars

\* C7 witness: after a retried failure, with several keys and both fallback
\* providers configured, Gemini answered with an empty questions array and
\* the call failed with 'Insufficient content'
C7_Witness ==
    \E c \in Calls :
        /\ call[c].pc = "settled"
        /\ call[c].seen = Text("{\"questions\":[]}")
        /\ llmStats.lastProvider = "gemini"
        /\ llmStats.geminiAttempts >= 2
        /\ env.geminiKeys > 1 /\ canUseDeepSeek /\ canUseGroq
        /\ call[c].result = InsufficientContent

\* C8: when any provider, DeepSeek and Groq included, answers with an empty
\* questions array, generateQuiz fails with the InsufficientContent error
\* itself and attempts no other provider or model after that answer.
C8_EmptyQuestionsAnyProvider ==
    \A c \in Calls :
        call[c].seen = Text("{\"questions\":[]}") =>
            /\ Over(c)
            /\ call[c].result = InsufficientContent

QuotaExceeded(c) ==
    Threw(<< "Gemini API Quota Exceeded. The system is currently busy." >>
          \o (IF call[c].lastSuggestedRetrySeconds >= 0
              THEN << "Please retry in", ToString(call[c].lastSuggestedRetrySeconds) >>
              ELSE <<>>))

\* C9: whenever generateQuiz, with Gemini configured, fails after its
\* providers and attempts are used up, the error is the quota-exceeded error
\* (with the last suggested retry-after) if the last Gemini failure was a
\* rate limit, and the generic error only if it was not.
C9_TerminalError ==
    \A c \in Calls :
        ( /\ canUseGemini
          /\ Over(c)
          /\ call[c].result.status = "thrown"
          /\ call[c].result # InsufficientContent )
        => IF isRateLimit(call[c].error)
           THEN call[c].result = QuotaExceeded(c)
           ELSE call[c].result = Threw(
                  << "Failed to generate quiz. The AI service might be busy or the file content is unclear." >>)

At(p) == Cardinality({c \in Calls : call[c].pc = p})

Bit(b) == IF b THEN 1 ELSE 0

\* every provider's attempts counter is its success plus its fail counter
\* plus the attempts of that provider still awaited
C10_Balanced ==
    /\ llmStats.geminiAttempts = llmStats.geminiSuccess + llmStats.geminiFail + At("gemini")
    /\ llmStats.deepseekAttempts
         = llmStats.deepseekSuccess + llmStats.deepseekFail + At("deepseek")
    /\ llmStats.groqAttempts = llmStats.groqSuccess + llmStats.groqFail + At("groq")
    /\ \A c \in Calls :
         ( /\ call[c].result.status = "returned"
           /\ call[c].requests = 1
           /\ llmStats.lastProvider = "gemini" )
         => llmStats = [InitStats EXCEPT !.geminiAttempts = 1, !.geminiSuccess = 1,
                                         !.lastProvider = "gemini",
                                         !.lastModel = modelCandidates[1]]

\* what one step of call c does to the counters
C10_Step(c) ==
    LET geminiStarts == call'[c].pc = "gemini" /\ call'[c].requests = call[c].requests + 1
        geminiSettles == call[c].pc = "gemini"
        deepseekStarts == call'[c].pc = "deepseek" /\ call[c].pc # "deepseek"
        deepseekEnds == call[c].pc = "deepseek" /\ call'[c].pc # "deepseek"
        groqStarts == call'[c].pc = "groq" /\ call[c].pc # "groq"
        groqEnds == call[c].pc = "groq" /\ call'[c].pc # "groq"
    IN  /\ llmStats'.geminiAttempts = llmStats.geminiAttempts + Bit(geminiStarts)
        /\ llmStats'.geminiSuccess >= llmStats.geminiSuccess
        /\ llmStats'.geminiFail >= llmStats.geminiFail
        /\ llmStats'.geminiSuccess + llmStats'.geminiFail
             = llmStats.geminiSuccess + llmStats.geminiFail + Bit(geminiSettles)
        /\ llmStats'.deepseekAttempts = llmStats.deepseekAttempts + Bit(deepseekStarts)
        /\ llmStats'.deepseekSuccess >= llmStats.deepseekSuccess
        /\ llmStats'.deepseekFail >= llmStats.deepseekFail
        /\ llmStats'.deepseekSuccess + llmStats'.deepseekFail
             = llmStats.deepseekSuccess + llmStats.deepseekFail + Bit(deepseekEnds)
        /\ llmStats'.groqAttempts = llmStats.groqAttempts + Bit(groqStarts)
        /\ llmStats'.groqSuccess >= llmStats.groqSuccess
        /\ llmStats'.groqFail >= llmStats.groqFail
        /\ llmStats'.groqSuccess + llmStats'.groqFail
             = llmStats.groqSuccess + llmStats.groqFail + Bit(groqEnds)

\* C10: every Gemini attempt increments geminiAttempts once before the call
\* and exactly one of geminiSuccess / geminiFail after it; every DeepSeek or
\* Groq pass increments attempts once before its first call and exactly one
\* of success / fail when it ends; so attempts = success + fail whenever no
\* attempt is open, and a first-attempt Gemini success changes only
\* geminiAttempts and geminiSuccess, by 1 each.
C10_StatsAccounting ==
    /\ []C10_Balanced
    /\ [][ \A c \in Calls : call'[c] # call[c] => C10_Step(c) ]_vars

\* C10 witness: a finished call that used all three providers
C10_Witness ==
    \E c \in Calls :
        /\ call[c].pc = "done"
        /\ llmStats.geminiFail >= 2
        /\ llmStats.deepseekFail = 1
        /\ llmStats.groqSuccess = 1

(***************************************************************************)
(* Usage reporting.                                                        *)
(***************************************************************************)
\* C11: the caller's usageCollector is invoked exactly once in a call that
\* returns a quiz, with the provider and model that produced the quiz, after
\* the parse of that provider's text succeeded and before the call returns;
\* it is invoked zero times while the call is pending and in a call that
\* throws.
C11_UsageReporting ==
    \A c \in Calls :
        /\ call[c].result.status \in {"pending", "thrown"} => call[c].usage = <<>>
        /\ call[c].result.status = "returned" =>
             /\ Len(call[c].usage) = 1
             /\ call[c].usage[1].provider = llmStats.lastProvider
             /\ call[c].usage[1].model = llmStats.lastModel
             /\ call[c].seen.kind = "text"
             /\ safeJsonParse(call[c].seen.text).ok
             /\ call[c].result.quiz = safeJsonParse(call[c].seen.text).value

\* C11 witness: after Gemini failed, the second DeepSeek model produced the
\* quiz and the one usage report names it; the caller does not have the
\* result yet
C11_Witness ==
    \E c \in Calls :
        /\ call[c].pc = "settled"
        /\ call[c].result.status = "returned"
        /\ llmStats.geminiFail >= 1
        /\ call[c].usage = << [provider |-> "deepseek", model |-> "deepseek-reasoner",
                               threw |-> FALSE] >>

\* the success counter of a provider
SuccessOf(stats, provider) ==
    CASE provider = "gemini" -> stats.geminiSuccess
      [] provider = "deepseek" -> stats.deepseekSuccess
      [] OTHER -> stats.groqSuccess

\* C12: a usageCollector that throws never fails the call: in the step in
\* which the sink throws, generateQuiz still returns the parsed quiz,
\* increments the success counter of the provider (and no fail counter) and
\* starts no further attempt.
C12_SinkFailureIgnored ==
    [][ \A c \in Calls :
          ( /\ Len(call'[c].usage) > Len(call[c].usage)
            /\ call'[c].usage[Len(call'[c].usage)].threw )
          => LET provider == call'[c].usage[Len(call'[c].usage)].provider IN
             /\ call[c].pc = provider
             /\ call'[c].pc = "settled"
             /\ call'[c].result = Returned(safeJsonParse(call'[c].seen.text).value)
             /\ call'[c].requests = call[c].requests
             /\ SuccessOf(llmStats', provider) = SuccessOf(llmStats, provider) + 1
             /\ llmStats'.geminiFail = llmStats.geminiFail
             /\ llmStats'.deepseekFail = llmStats.deepseekFail
             /\ llmStats'.groqFail = llmStats.groqFail
             /\ llmStats'.geminiAttempts = llmStats.geminiAttempts
             /\ llmStats'.deepseekAttempts = llmStats.deepseekAttempts
             /\ llmStats'.groqAttempts = llmStats.groqAttempts ]_vars

\* C12 witness: the sink threw on the report of a first-attempt Gemini quiz
\* and the caller got the quiz
C12_Witness ==
    \E c \in Calls :
        /\ call[c].pc = "done"
        /\ call[c].result.status = "returned"
        /\ call[c].usage = << [provider |-> "gemini", model |-> modelCandidates[1],
                               threw |-> TRUE] >>
        /\ llmStats.geminiSuccess = 1
        /\ llmStats.geminiFail = 0

(***************************************************************************)
(* The rate-limit scenario.                                                *)
(***************************************************************************)
\* C13: if every Gemini attempt fails with HTTP 429 'Please retry in 3.5s'
\* and DeepSeek is configured and succeeds, generateQuiz returns DeepSeek's
\* parsed quiz; every backoff wait equals the 3.5 s hint (within the cap);
\* geminiFail goes up by one per failed Gemini attempt; deepseekSuccess goes
\* up by exactly 1; Groq is never called.
C13_RateLimitScenario ==
    /\ [](\A c \in Calls :
            /\ call[c].pc # "groq"
            /\ call[c].pc = "sleep" =>
                 call[c].wait = 3500 /\ call[c].wait <= MAX_GEMINI_RETRY_DELAY_MS
            /\ call[c].pc # "sleep" => call[c].wait = 0
            /\ Over(c) =>
                 /\ call[c].result = Returned(safeJsonParse(call[c].seen.text).value)
                 /\ llmStats.lastProvider = "deepseek"
                 /\ llmStats.deepseekSuccess = 1
                 /\ llmStats.deepseekFail = 0
                 /\ llmStats.geminiFail = llmStats.geminiAttempts
                 /\ llmStats.geminiSuccess = 0)
    /\ [](llmStats.groqAttempts = 0 /\ llmStats.deepseekSuccess <= 1)
    /\ [][ \A c \in Calls :
              (call[c].pc = "gemini" /\ call'[c] # call[c])
              => /\ llmStats'.geminiFail = llmStats.geminiFail + 1
                 /\ call'[c].pc \in {"sleep", "deepseek"} ]_vars

\* C13 witness: four Gemini attempts failed, three waits were made, the
\* second DeepSeek model answered, Groq is configured and was not used
C13_Witness ==
    \E c \in Calls :
        /\ call[c].pc = "done"
        /\ canUseGroq
        /\ llmStats.geminiFail = MAX_RETRIES + 1
        /\ call[c].elapsed = 3 * 3500
        /\ llmStats.lastModel = DEEPSEEK_MODEL_CANDIDATES[2]
        /\ call[c].result.status = "returned"

(***************************************************************************)
(* Model rotation and the bound on Gemini attempts.                        *)
(***************************************************************************)
\* the calls of ParserSpec that have finished on an input of family f
Finished(f) == {c \in Calls : call[c].pc = "done" /\ call[c].input.family = f}

\* C14: for every well-formed JSON object or array, wrapped in optional code
\* fences and leading and trailing prose (prose with '{' or '[' and strings
\* holding a comma before '}' or ']' included), JSON.parse of the sanitized
\* text succeeds and equals JSON.parse of the embedded JSON text.
C14_SanitizeStrictParse ==
    \A c \in Finished("wrapped") :
        /\ JsonParse(call[c].cleaned) = JsonParse(call[c].input.embedded)
        /\ call[c].result = ParserReturned(call[c].input.value)

\* C15: for every JSON text that is well-formed except for trailing commas
\* directly before a closing '}' or ']', sanitizeJsonString removes exactly
\* those commas and no other character, commas inside string literals kept,
\* and the result parses to the value of the comma-free text.
C15_TrailingCommas ==
    \A c \in Finished("commas") :
        /\ call[c].cleaned = call[c].input.embedded
        /\ JsonParse(call[c].cleaned) = [ok |-> TRUE, v |-> call[c].input.value]

\* C16: for an input whose "questions" array holds N complete objects and
\* then a truncated remainder, safeJsonParse returns {questions: [...]} with
\* exactly those N objects in their original order and nothing else.
C16_TruncationRecovery ==
    \A c \in Finished("truncated") :
        call[c].result = ParserReturned(call[c].input.value)

\* the position in text of its first '{' or '[', the position of the last
\* character of the balanced text found from there, and the positions after
\* that opener that lie inside string literals
FirstValueEnd(text, balanced) == FirstOpener(text) + Len(balanced.text) - 1

StringPositions(text) ==
    {FirstOpener(text) - 1 + k :
        k \in InsideString(SubSeq(text, FirstOpener(text), Len(text)), 1, FALSE, FALSE)}

\* C17: the balanced-extraction scan treats no brace, bracket or quote inside
\* a string literal (backslash escapes honoured) as structural.  When a
\* complete JSON value starts at the first opener, the extracted text is that
\* value: not longer, and not cut at a closer inside one of its strings.
\* When the value is cut inside a string literal and only closers follow,
\* nothing is extracted.  Whatever the input, an extracted text ends at a
\* closer that lies outside every string literal.
C17_StringAwareBalancing ==
    /\ \A c \in Finished("balance") :
          IF call[c].input.whole
          THEN call[c].balanced = Found(call[c].input.embedded)
          ELSE call[c].balanced = NotFound
    /\ \A c \in Calls :
          (call[c].pc = "done" /\ call[c].balanced.found) =>
              LET text == Unwrap(call[c].input.raw)
                  last == FirstValueEnd(text, call[c].balanced)
              IN  /\ call[c].balanced.text = SubSeq(text, FirstOpener(text), last)
                  /\ text[last] \in {"}", "]"}
                  /\ last \notin StringPositions(text)

\* C17 witness: a value with a closer inside one of its strings, followed by
\* more closers, was extracted whole
C17_Witness ==
    \E c \in Finished("balance") :
        /\ call[c].input.whole
        /\ call[c].balanced = Found(call[c].input.embedded)
        /\ \E k \in InsideString(call[c].input.embedded, 1, FALSE, FALSE) :
              call[c].input.embedded[k] \in {"}", "]"}
        /\ Len(call[c].input.raw) > Len(call[c].input.embedded)
        /\ call[c].input.raw[Len(call[c].input.raw)] \in {"}", "]"}

\* C18: when neither the strict parse of the sanitized text nor the recovery
\* yields a result (empty and white-space input, and a "questions" array with
\* no complete element, included), safeJsonParse throws an error whose body
\* is the first at most 400 characters of the sanitized text; it never
\* returns undefined.
C18_TotalFailure ==
    \A c \in Calls :
        call[c].pc = "done" =>
            LET failed == /\ ~JsonParse(call[c].cleaned).ok
                          /\ ~tryRecoverQuizJson(call[c].input.raw).ok
                body == call[c].result.body
            IN  /\ failed <=> call[c].result.status = "thrown"
                /\ call[c].input.family = "failure" => failed
                /\ call[c].result.status = "thrown" =>
                      /\ Len(body) <= 400
                      /\ Len(body) = Min(Len(call[c].cleaned), BODY_LIMIT)
                      /\ body = SubSeq(call[c].cleaned, 1, Len(body))
                /\ call[c].result.status = "returned" =>
                      call[c].result.value # Undefined

\* C18 witness: a failure on a sanitized text longer than the body
C18_Witness ==
    \E c \in Finished("failure") :
        /\ call[c].result.status = "thrown"
        /\ Len(call[c].cleaned) > BODY_LIMIT
        /\ Len(call[c].result.body) = BODY_LIMIT
        /\ call[c].cleaned # call[c].input.raw

\* C19: a Gemini failure classified as model-not-found while a later model
\* candidate exists advances modelIndex by exactly one, resets attempt to 0
\* and starts the next attempt on the new model without any backoff sleep;
\* modelIndex never decreases within a call and every attempt is made on
\* the model at modelIndex, so an abandoned model is never attempted again.
C19_ModelRotation ==
    [][ \A c \in Calls :
          call'[c] # call[c] =>
            /\ call'[c].modelIndex >= call[c].modelIndex
            /\ call'[c].requests > call[c].requests /\ call'[c].pc = "gemini" =>
                 llmStats'.lastModel = modelCandidates[call'[c].modelIndex + 1]
            /\ ( /\ call[c].pc = "gemini"
                 /\ call'[c].seen.kind = "reject"
                 /\ isModelNotFound(call'[c].seen.error)
                 /\ call[c].modelIndex + 1 < Len(modelCandidates) )
               => /\ call'[c].modelIndex = call[c].modelIndex + 1
                  /\ call'[c].attempt = 0
                  /\ call'[c].pc = "gemini"
                  /\ call'[c].requests = call[c].requests + 1
                  /\ call'[c].wait = 0
                  /\ call'[c].elapsed = call[c].elapsed
            /\ call'[c].modelIndex # call[c].modelIndex =>
                 call[c].pc = "gemini" /\ isModelNotFound(call'[c].seen.error) ]_vars

\* C19 witness: the first model was retried after a failure and then
\* abandoned as not found; the attempt on the second model starts from 0
C19_Witness ==
    \E c \in Calls :
        /\ call[c].pc = "gemini"
        /\ call[c].modelIndex = 1
        /\ call[c].attempt = 0
        /\ call[c].seen.kind = "reject" /\ isModelNotFound(call[c].seen.error)
        /\ llmStats.geminiFail >= 2
        /\ llmStats.lastModel = modelCandidates[2]

\* C20: within one generateQuiz call no more than 4 Gemini attempts (1
\* initial + at most MAX_RETRIES retries) are made on any single model
\* candidate between model switches, whatever the Gemini failures.
C20_BoundedRetries ==
    \A c \in Calls :
        /\ call[c].tries <= MAX_RETRIES + 1
        /\ call[c].tries <= 4
        /\ call[c].requests <= 4 * Len(modelCandidates)
                                 + Len(DEEPSEEK_MODEL_CANDIDATES) + Len(GROQ_MODEL_CANDIDATES)
        /\ llmStats.geminiAttempts <= 4 * (call[c].modelIndex + 1)

\* C20 witness: the fourth attempt on the second model is awaited after the
\* first model had its own attempts
C20_Witness ==
    \E c \in Calls :
        /\ call[c].pc = "gemini"
        /\ call[c].tries = 4
        /\ call[c].modelIndex = 1
        /\ llmStats.geminiAttempts >= 6

\* the error thrown in the try block of the Gemini attempt that answer a ended
ThrownBy(a) == GeminiOutcome(a).error

\* the Gemini attempt of call c ends in this step with a failure
GeminiFails(c) ==
    /\ call[c].pc = "gemini"
    /\ call'[c].seen.kind # "none"
    /\ call'[c] # call[c]
    /\ ~GeminiOutcome(call'[c].seen).ok

\* the Gemini attempt of call c ends in this step with a quiz
GeminiSucceeds(c) ==
    /\ call[c].pc = "gemini"
    /\ call'[c].pc = "settled"
    /\ GeminiOutcome(call'[c].seen).ok

\* C21: keyIndex advances (by one) only after a failure classified rate
\* limit, forbidden, server overload or timeout and only with more than one
\* key; modelIndex advances (by one) only on model-not-found; neither changes
\* on a successful attempt; attempt is reset to zero exactly when modelIndex
\* advances and counts on when only keyIndex advances; the key of an attempt
\* is keyCandidates[keyIndex mod number of keys].
C21_RotationBookkeeping ==
    [][\A c \in Calls :
        LET e == ThrownBy(call'[c].seen) IN
        /\ call'[c].keyIndex # call[c].keyIndex =>
              /\ call'[c].keyIndex = call[c].keyIndex + 1
              /\ GeminiFails(c)
              /\ isRateLimit(e) \/ isForbidden(e) \/ isServerOverload(e) \/ isTimeout(e)
              /\ env.geminiKeys > 1
              /\ call'[c].modelIndex = call[c].modelIndex
              /\ call'[c].attempt = call[c].attempt + 1
        /\ call'[c].modelIndex # call[c].modelIndex =>
              /\ call'[c].modelIndex = call[c].modelIndex + 1
              /\ GeminiFails(c)
              /\ isModelNotFound(e)
              /\ call'[c].attempt = 0
        /\ (call'[c].attempt = 0 /\ call[c].attempt # 0) =>
              call'[c].modelIndex = call[c].modelIndex + 1
        /\ GeminiSucceeds(c) =>
              /\ call'[c].keyIndex = call[c].keyIndex
              /\ call'[c].modelIndex = call[c].modelIndex
              /\ call'[c].attempt = call[c].attempt
        /\ call'[c].pc = "gemini" =>
              /\ call'[c].key = (call'[c].keyIndex % env.geminiKeys) + 1
              /\ call'[c].key \in 1 .. env.geminiKeys
    ]_vars

\* C21 witness: the third attempt on a model, after two key rotations with
\* two keys, is made with the first key again
C21_Witness ==
    \E c \in Calls :
        /\ call[c].pc = "gemini"
        /\ env.geminiKeys = 2
        /\ call[c].keyIndex = 2
        /\ call[c].key = 1
        /\ call[c].attempt = 2
        /\ call[c].tries = 3

\* with the error e just thrown, a failure of a retried class would now be
\* followed by the backoff wait: retries remain, the quota is no hard zero,
\* and no other provider takes over for lack of time
BackoffDue(c, e) ==
    /\ call'[c].attempt <= MAX_RETRIES
    /\ ~isHardFreeTierZero(e)
    /\ ~(isModelNotFound(e) /\ call[c].modelIndex + 1 < Len(modelCandidates))
    /\ ~ /\ canUseDeepSeek \/ canUseGroq
         /\ \/ rawWaitTime(e, call[c].attempt + 1) > MAX_GEMINI_RETRY_DELAY_MS
            \/ call'[c].elapsed + cappedWaitTime(e, call[c].attempt + 1)
                 > MAX_GEMINI_TOTAL_TIME_MS

\* C22: a Gemini failure classified forbidden (401/403) is handled like rate
\* limit, server overload and timeout: with more than one key and retries
\* remaining, the next key is taken and, after the backoff wait, a further
\* Gemini attempt is made with it before Gemini is given up.
C22_ForbiddenRetried ==
    [][\A c \in Calls :
        LET e == ThrownBy(call'[c].seen) IN
        (/\ GeminiFails(c)
         /\ isForbidden(e)
         /\ e.message # << "Insufficient content" >>
         /\ env.geminiKeys > 1
         /\ BackoffDue(c, e)) =>
            /\ call'[c].keyIndex = call[c].keyIndex + 1
            /\ call'[c].pc = "sleep"
            /\ call'[c].wait = cappedWaitTime(e, call'[c].attempt)
    ]_vars

\* the retry hint of the failure the sleeping call c is backing off from
HintOf(c) == retrySeconds(ThrownBy(call[c].seen))

\* C23: every backoff sleep between Gemini attempts is at most
\* MAX_GEMINI_RETRY_DELAY_MS, whatever hint the error carried and whatever
\* the attempt number; when the error carries a numeric hint not above the
\* ceiling, the sleep equals that hint.
C23_BackoffCap ==
    \A c \in Calls :
        call[c].pc = "sleep" =>
            /\ call[c].wait <= MAX_GEMINI_RETRY_DELAY_MS
            /\ (/\ hasRetrySeconds(ThrownBy(call[c].seen))
                /\ HintOf(c) <= MAX_GEMINI_RETRY_DELAY_MS) =>
                     call[c].wait = HintOf(c)

\* C24: when a retryable Gemini failure carries no retry hint, the wait
\* before the next attempt is min(ceiling, 2000 ms * 2^n), n the number of
\* failed attempts on the current model before the failing one: 2000 ms
\* after the first failure, then 4000 ms, then the ceiling.
C24_ExponentialBackoff ==
    \A c \in Calls :
        (call[c].pc = "sleep" /\ ~hasRetrySeconds(ThrownBy(call[c].seen))) =>
            /\ call[c].attempt >= 1
            /\ call[c].wait = Min(MAX_GEMINI_RETRY_DELAY_MS,
                                  INITIAL_RETRY_DELAY_MS * Pow2(call[c].attempt - 1))
            /\ call[c].attempt = 1 => call[c].wait = 2000

\* the failure e that ends the Gemini attempt of call c in this step is one
\* that line 689 lets be retried: of a retried class, with retries left, and
\* no hard free-tier zero
Retryable(c, e) ==
    /\ GeminiFails(c)
    /\ e.message # << "Insufficient content" >>
    /\ ~(isModelNotFound(e) /\ call[c].modelIndex + 1 < Len(modelCandidates))
    /\ isRateLimit(e) \/ isServerOverload(e) \/ isTimeout(e)
    /\ call'[c].attempt <= MAX_RETRIES
    /\ ~isHardFreeTierZero(e)

\* C25: after a retryable Gemini failure, if DeepSeek or Groq is configured
\* and either elapsed time plus the capped wait would exceed
\* MAX_GEMINI_TOTAL_TIME_MS or the uncapped suggested wait exceeds the
\* ceiling, there is no sleep and no further Gemini attempt: the call goes
\* straight to provider fallback.  With no other provider it sleeps the
\* capped wait and retries Gemini, even with the budget already exceeded.
C25_TimeBudget ==
    [][\A c \in Calls :
        LET e == ThrownBy(call'[c].seen)
            raw == IF hasRetrySeconds(e) THEN Max(500, retrySeconds(e))
                   ELSE INITIAL_RETRY_DELAY_MS * Pow2(call'[c].attempt)
            capped == Min(raw, MAX_GEMINI_RETRY_DELAY_MS)
            overBudget == call'[c].elapsed + capped > MAX_GEMINI_TOTAL_TIME_MS
            tooLong == raw > MAX_GEMINI_RETRY_DELAY_MS
        IN  /\ Retryable(c, e) =>
                 IF (canUseDeepSeek \/ canUseGroq) /\ (overBudget \/ tooLong)
                 THEN /\ call'[c].pc = IF canUseDeepSeek THEN "deepseek" ELSE "groq"
                      /\ call'[c].wait = 0
                      /\ llmStats'.geminiAttempts = llmStats.geminiAttempts
                 ELSE /\ call'[c].pc = "sleep"
                      /\ call'[c].wait = capped
            /\ call[c].pc = "sleep" =>
                 \/ call'[c] = call[c]
                 \/ /\ call'[c].pc = "gemini"
                    /\ llmStats'.geminiAttempts = llmStats.geminiAttempts + 1
            /\ (canUseGemini /\ call[c].pc \in {"deepseek", "groq"}) =>
                 /\ call'[c].pc \notin {"gemini", "sleep"}
                 /\ llmStats'.geminiAttempts = llmStats.geminiAttempts
    ]_vars

\* C25 witness: a hint below the ceiling, but the wait would pass the budget:
\* the call is in the DeepSeek fallback with retries left, having not slept
C25_Witness ==
    \E c \in Calls :
        LET e == ThrownBy(call[c].seen) IN
        /\ call[c].pc = "deepseek"
        /\ call[c].attempt <= MAX_RETRIES
        /\ isRateLimit(e) /\ ~isHardFreeTierZero(e)
        /\ rawWaitTime(e, call[c].attempt) <= MAX_GEMINI_RETRY_DELAY_MS
        /\ call[c].elapsed < MAX_GEMINI_TOTAL_TIME_MS
        /\ call[c].elapsed + cappedWaitTime(e, call[c].attempt) > MAX_GEMINI_TOTAL_TIME_MS

C27_ProviderOrder ==
    [][\A c \in Calls :
        /\ llmStats'.groqAttempts > 0 =>
              \/ ~canUseDeepSeek
              \/ /\ llmStats'.deepseekAttempts = 1
                 /\ llmStats'.deepseekFail = 1
                 /\ llmStats'.deepseekSuccess = 0
        /\ llmStats'.deepseekAttempts > llmStats.deepseekAttempts =>
              /\ canUseDeepSeek
              /\ llmStats.groqAttempts = 0
              /\ call'[c].pc = "deepseek"
        /\ llmStats'.groqAttempts > llmStats.groqAttempts =>
              /\ canUseGroq
              /\ call'[c].pc = "groq"
              /\ canUseDeepSeek => call[c].pc = "deepseek"
        /\ ~canUseGemini =>
              /\ llmStats'.geminiAttempts = 0
              /\ call'[c].pc \notin {"gemini", "sleep"}
        /\ (canUseGemini /\ call'[c].pc \in {"deepseek", "groq"}) =>
              /\ llmStats'.geminiFail >= 1
              /\ llmStats'.geminiSuccess = 0
              /\ fallbackClass(call'[c].error)
              /\ call[c].pc \in {"gemini", "deepseek", "groq"}
    ]_vars

\* C27 witness: with all three providers configured the call awaits Groq
\* after a Gemini failure and a failed DeepSeek pass
C27_Witness ==
    \E c \in Calls :
        /\ call[c].pc = "groq"
        /\ canUseGemini /\ canUseDeepSeek /\ canUseGroq
        /\ llmStats.geminiFail >= 1
        /\ llmStats.deepseekAttempts = 1
        /\ llmStats.deepseekFail = 1
        /\ llmStats.groqAttempts = 1

\* the failures a DeepSeek pass answers with `continue`: HTTP 400 with a body
\* reporting an invalid request or a model that was not found
DeepSeekContinues(a) ==
    /\ a.kind = "reject"
    /\ a.error.status = 400
    /\ \/ Includes(a.error.body, "invalid_request_error")
       \/ /\ Includes(ToLowerCase(a.error.body), "model")
          /\ Includes(ToLowerCase(a.error.body), "not found")

\* the failures a Groq pass answers with `continue`: HTTP 400 with a body
\* reporting an invalid request or a decommissioned model
GroqContinues(a) ==
    /\ a.kind = "reject"
    /\ a.error.status = 400
    /\ \/ Includes(a.error.body, "invalid_request_error")
       \/ Includes(a.error.body, "model_decommissioned")
       \/ Includes(ToLowerCase(a.error.body), "decommissioned")

\* C28: within a DeepSeek pass the next candidate is tried only after an
\* HTTP 400 failure whose body reports an invalid request or model-not-found
\* (for Groq: invalid request or decommissioned model); any other failure of a
\* candidate ends the provider's pass at once; candidates are tried in list
\* order and each at most once per pass.
C28_SkipOrAbort ==
    [][\A c \in Calls :
        /\ (call[c].pc = "deepseek" /\ call'[c] # call[c]) =>
              IF DeepSeekContinues(call'[c].seen) /\ call[c].m < Len(DEEPSEEK_MODEL_CANDIDATES)
              THEN /\ call'[c].pc = "deepseek"
                   /\ call'[c].m = call[c].m + 1
                   /\ call'[c].requests = call[c].requests + 1
                   /\ llmStats'.lastModel = DEEPSEEK_MODEL_CANDIDATES[call[c].m + 1]
                   /\ llmStats'.deepseekAttempts = llmStats.deepseekAttempts
                   /\ llmStats'.deepseekFail = llmStats.deepseekFail
              ELSE /\ call'[c].pc # "deepseek"
                   /\ llmStats'.deepseekAttempts = llmStats.deepseekAttempts
                   /\ llmStats'.deepseekSuccess + llmStats'.deepseekFail
                         = llmStats.deepseekSuccess + llmStats.deepseekFail + 1
                   /\ llmStats'.deepseekSuccess > llmStats.deepseekSuccess
                         <=> (call'[c].seen.kind = "text" /\ call'[c].result.status = "returned")
        /\ (call[c].pc = "groq" /\ call'[c] # call[c]) =>
              IF GroqContinues(call'[c].seen) /\ call[c].m < Len(GROQ_MODEL_CANDIDATES)
              THEN /\ call'[c].pc = "groq"
                   /\ call'[c].m = call[c].m + 1
                   /\ call'[c].requests = call[c].requests + 1
                   /\ llmStats'.lastModel = GROQ_MODEL_CANDIDATES[call[c].m + 1]
                   /\ llmStats'.groqAttempts = llmStats.groqAttempts
                   /\ llmStats'.groqFail = llmStats.groqFail
              ELSE /\ call'[c].pc \notin {"deepseek", "groq"}
                   /\ llmStats'.groqAttempts = llmStats.groqAttempts
                   /\ llmStats'.groqSuccess + llmStats'.groqFail
                         = llmStats.groqSuccess + llmStats.groqFail + 1
        /\ (call[c].pc # "deepseek" /\ call'[c].pc = "deepseek") =>
              /\ call'[c].m = 1
              /\ llmStats'.lastModel = DEEPSEEK_MODEL_CANDIDATES[1]
        /\ (call[c].pc # "groq" /\ call'[c].pc = "groq") =>
              /\ call'[c].m = 1
              /\ llmStats'.lastModel = GROQ_MODEL_CANDIDATES[1]
    ]_vars

\* C28 witness: the second DeepSeek candidate is awaited after the first was
\* refused with HTTP 400 and an invalid-request body
C28_Witness ==
    \E c \in Calls :
        /\ call[c].pc = "deepseek"
        /\ call[c].m = 2
        /\ DeepSeekContinues(call[c].seen)
        /\ llmStats.deepseekAttempts = 1
        /\ llmStats.deepseekFail = 0

\* the call awaits the answer of a provider request
Awaiting(c) == call[c].pc \in {"gemini", "deepseek", "groq"}

\* the provider requests of call c that have been sent and not answered
Outstanding(c) == call[c].abandoned + (IF Awaiting(c) THEN 1 ELSE 0)

\* C29 as stated: at no time are two provider requests of the same call
\* outstanding at once, including after a Gemini attempt has hit its 25 s
\* timeout and the next attempt or a fallback call has started.
C29_StrictlySequential == \A c \in Calls : Outstanding(c) <= 1

\* C29 amended: the requests of a call are started one at a time and never
\* while the call awaits another; the requests outstanding besides the
\* awaited one are the Gemini requests abandoned when the 25 s timer fired,
\* one per timed-out attempt, until they are answered.
C29_SequentialStarts ==
    [][\A c \in Calls :
        /\ call'[c].requests \in {call[c].requests, call[c].requests + 1}
        /\ call'[c].requests = call[c].requests + 1 =>
              /\ call'[c].pc \in {"gemini", "deepseek", "groq"}
              /\ Awaiting(c) => call'[c].seen.kind \in {"text", "reject", "timeout"}
              /\ call[c].pc \in {"admitted", "sleep", "gemini", "deepseek", "groq"}
        /\ (call'[c].requests = call[c].requests /\ call'[c].pc # call[c].pc) =>
              call'[c].pc \notin {"gemini", "deepseek", "groq"}
        /\ call'[c].abandoned > call[c].abandoned =>
              /\ call'[c].abandoned = call[c].abandoned + 1
              /\ call[c].pc = "gemini"
              /\ call'[c].seen = TimedOut
              /\ llmStats'.geminiFail = llmStats.geminiFail + 1
        /\ call'[c].abandoned <= llmStats'.geminiFail
        /\ call'[c].abandoned + (IF call'[c].pc \in {"gemini", "deepseek", "groq"} THEN 1 ELSE 0)
              <= call'[c].requests
    ]_vars

\* C29 witness: the call awaits DeepSeek while the Gemini request of its
\* timed-out attempt has not been answered
C29_Witness ==
    \E c \in Calls :
        /\ call[c].pc = "deepseek"
        /\ call[c].abandoned >= 1
        /\ call[c].requests >= 2

\* the call's local state without what names the failure itself
HandlingOf(x) ==
    [x EXCEPT !.seen = NoAnswer, !.error = NoError, !.abandoned = 0,
              !.result = [@ EXCEPT !.message = <<>>]]

\* where the catch block leaves call c for a 503 that took as long as the timer
AsOverloaded(c) ==
    GeminiDone(Settling(c, "returns"), Reject(Overloaded), GENERATION_TIMEOUT_MS)

\* C30: a Gemini attempt that has not answered within 25 s is treated exactly
\* like a retryable failure of class Timeout: geminiFail and the attempt
\* counter are incremented, the key is rotated when several keys exist, and
\* backoff or fallback follow as for a server overload; a response of the
\* abandoned request that arrives later changes neither the call's result nor
\* any llmStats counter.
C30_TimeoutHandling ==
    [][\A c \in Calls :
        /\ (call[c].pc = "gemini" /\ call'[c].abandoned > call[c].abandoned) =>
              /\ call'[c].seen = TimedOut
              /\ isTimeout(ThrownBy(call'[c].seen))
              /\ call'[c].elapsed = Min(MAX_GEMINI_TOTAL_TIME_MS,
                                        call[c].elapsed + GENERATION_TIMEOUT_MS)
              /\ llmStats'.geminiFail = llmStats.geminiFail + 1
              /\ llmStats'.geminiSuccess = llmStats.geminiSuccess
              /\ call'[c].attempt = call[c].attempt + 1
              /\ call'[c].modelIndex = call[c].modelIndex
              /\ call'[c].keyIndex =
                    call[c].keyIndex + (IF env.geminiKeys > 1 THEN 1 ELSE 0)
              /\ HandlingOf(call'[c]) = HandlingOf(AsOverloaded(c).c)
              /\ [llmStats' EXCEPT !.lastError = <<>>]
                    = [AsOverloaded(c).s EXCEPT !.lastError = <<>>]
        /\ call'[c].abandoned < call[c].abandoned =>
              /\ llmStats' = llmStats
              /\ call'[c] = [call[c] EXCEPT !.abandoned = @ - 1]
              /\ inFlight' = inFlight
              /\ waiters' = waiters
    ]_vars

\* C30 witness: the timer ended the attempt on the first of two keys, the
\* call sleeps before the retry on the second key, and the abandoned request
\* has been answered meanwhile
C30_Witness ==
    \E c \in Calls :
        /\ call[c].pc = "sleep"
        /\ call[c].seen = TimedOut
        /\ call[c].abandoned = 0
        /\ call[c].wait > 0
        /\ call[c].keyIndex = 1
        /\ llmStats.geminiFail = 1

\* the Gemini attempt of call c ends in this step with an empty response, an
\* output that cannot be parsed, or a parsed output without a questions array
GeminiUnusable(c) ==
    /\ GeminiFails(c)
    /\ call'[c].seen.kind = "text"
    /\ ThrownBy(call'[c].seen).message # << "Insufficient content" >>

\* C31: a Gemini attempt that fails with an empty response or with a parse
\* error is subject to the same retry/fallback policy as transient failures:
\* while retries remain Gemini is retried after backoff, and otherwise a
\* configured DeepSeek/Groq is attempted, before the call is failed.
C31_UnusableRetried ==
    [][\A c \in Calls :
        GeminiUnusable(c) =>
            IF call'[c].attempt <= MAX_RETRIES
            THEN \/ call'[c].pc = "sleep"
                 \/ (canUseDeepSeek /\ call'[c].pc = "deepseek")
                 \/ (~canUseDeepSeek /\ canUseGroq /\ call'[c].pc = "groq")
            ELSE IF canUseDeepSeek THEN call'[c].pc = "deepseek"
            ELSE IF canUseGroq THEN call'[c].pc = "groq"
            ELSE call'[c].pc = "settled"
    ]_vars

\* attempt, modelIndex and keyIndex of a call's local state
Bookkeeping(x) == << x.attempt, x.modelIndex, x.keyIndex >>

\* where the end of its Gemini attempt leaves call c by its own state and
\* answer alone, with llmStats as at process start
OnItsOwn(c) ==
    GeminiDone([c |-> call[c], s |-> InitStats, usageCollector |-> "returns"],
               call'[c].seen, 0).c

\* C32: attempt, modelIndex and keyIndex of one generateQuiz call are never
\* read or written by another call, so the sequence of (model, key) pairs a
\* call tries depends only on its own failures; every call starts at model
\* index 0 and key index 0 regardless of what concurrent or earlier calls
\* experienced.
C32_LocalBookkeeping ==
    [][\A c \in Calls :
        /\ (call[c].pc = "admitted" /\ call'[c].pc # "admitted") =>
              /\ Bookkeeping(call'[c]) = << 0, 0, 0 >>
              /\ call'[c].pc = "gemini"
              /\ call'[c].key = currentKey(0)
        /\ call[c].pc # "gemini" => Bookkeeping(call'[c]) = Bookkeeping(call[c])
        /\ (call[c].pc = "gemini" /\ call'[c] # call[c]) =>
              /\ Bookkeeping(call'[c]) = Bookkeeping(OnItsOwn(c))
              /\ call'[c].pc = OnItsOwn(c).pc
              /\ call'[c].wait = OnItsOwn(c).wait
              /\ call'[c].key = OnItsOwn(c).key
              /\ \A d \in Calls \ {c} : call'[d] = call[d]
        /\ call'[c].pc = "gemini" => call'[c].key = currentKey(call'[c].keyIndex)
    ]_vars

\* C32 witness: a call that came second starts its first Gemini attempt at
\* model 0 with key 0 while the first call, after failures of its own, is at
\* the second model and a rotated key
C32_Witness ==
    \E c, d \in Calls :
        /\ admitOrder = << c, d >>
        /\ call[c].pc = "gemini"
        /\ call[c].modelIndex = 1
        /\ call[c].keyIndex = 1
        /\ call[d].pc = "gemini"
        /\ call[d].tries = 1
        /\ Bookkeeping(call[d]) = << 0, 0, 0 >>
        /\ call[d].key = 1
        /\ call[c].key = 2
        /\ llmStats.geminiFail >= 2

\* C33: while recovering a "questions" array, if any balanced {...} element
\* fails to parse, recovery yields no result at all (the elements already
\* collected are discarded and safeJsonParse fails), whereas an element that
\* is merely truncated (never balanced) ends the scan and the elements
\* collected before it are returned.
C33_BadElementAborts ==
    \A c \in Finished("elements") :
        /\ ~JsonParse(call[c].cleaned).ok
        /\ IF call[c].input.whole
           THEN /\ ~tryRecoverQuizJson(call[c].input.raw).ok
                /\ call[c].result = InvalidJsonOf(call[c].cleaned)
           ELSE /\ tryRecoverQuizJson(call[c].input.raw).ok
                /\ call[c].result = ParserReturned(call[c].input.value)

\* C33 witness: safeJsonParse has thrown on a "questions" array that holds two
\* complete objects, then a balanced element that does not parse, then a
\* further complete object
C33_Witness ==
    \E c \in Finished("elements") :
        /\ call[c].input.whole
        /\ call[c].input.raw =
             QuestionsOpen
               \o Listed(<< Obj(<<KeyA, Num(<<"1">>)>>), Obj(<<KeyA, Str(<<"}">>)>>) >>)
               \o <<"{", "b", "}">>
               \o <<",", "{", Quote, "a", Quote, ":", "1", "}", "]", "}">>
        /\ call[c].result.status = "thrown"

\* the body of response r mentions response_format, in any case
MentionsResponseFormat(r) ==
    \E i \in DOMAIN r.body : LowerWord(r.body[i]) = "response_format"

\* C34: in a DeepSeek/Groq adapter call a second HTTP request is sent only
\* when JSON mode is on and the first response is HTTP 400 with a body
\* mentioning response_format; the second request omits response_format; no
\* adapter call ever sends more than two requests, and a non-2xx answer to
\* the second (or any other non-2xx first answer) fails the call with an
\* error carrying the status and body.
C34_JsonModeFallback ==
    \A c \in Calls :
        LET x == call[c] IN
        /\ Len(x.sent) <= 2
        /\ Len(x.got) <= Len(x.sent)
        /\ Len(x.sent) >= 1 => x.sent[1].response_format = x.wantJson
        /\ Len(x.sent) = 2 <=>
              /\ Len(x.got) >= 1
              /\ x.wantJson
              /\ x.got[1].status = 400
              /\ MentionsResponseFormat(x.got[1])
        /\ Len(x.sent) = 2 => ~x.sent[2].response_format
        /\ (x.pc = "done" /\ Len(x.got) = Len(x.sent) /\ x.got # <<>>) =>
              LET last == x.got[Len(x.got)] IN
              IF last.status \in 200 .. 299
              THEN x.result.status = "thrown" <=> last.content = ""
              ELSE /\ x.result.status = "thrown"
                   /\ x.result.error.status = last.status
                   /\ x.result.error.body = last.body

\* C34 witness: with JSON mode on the first request was refused with 400
\* over response_format, the second, sent without it, with 429, and the call
\* has thrown an error with status 429 and that body
C34_Witness ==
    \E c \in Calls :
        /\ call[c].pc = "done"
        /\ call[c].wantJson
        /\ Len(call[c].sent) = 2
        /\ call[c].got[1] = Http(400, <<"unsupported", "Response_Format">>, "")
        /\ call[c].got[2] = Http(429, <<"Rate Limit">>, "")
        /\ call[c].result.status = "thrown"
        /\ call[c].result.error.status = 429

\* C35: HTTP calls to providers are bounded by a request-level timeout of
\* 30 s and, on a plain network-level failure, are tried at most 3 times in
\* total with exponentially growing waits starting at about 1.5 s, after
\* which the failure is surfaced.
C35_ThreeTries ==
    \A c \in Calls :
        LET x == call[c] IN
        /\ Len(x.tried) + (IF x.pc = "fetching" THEN 1 ELSE 0) <= 3
        /\ \A i \in DOMAIN x.waits : x.waits[i] = FETCH_WAIT_MS * Pow2(i - 1)
        /\ (x.pc = "done" /\ x.result = "thrown") =>
              x.tried[Len(x.tried)] # "ok"

\* C36: no idle slot while a caller waits: whenever the waiter queue is not
\* empty, inFlight equals the configured maximum, because release() runs the
\* queued callback, which takes the freed slot, in the same step; callers are
\* queued only when the gate is full.
C36_NoIdleSlot ==
    /\ waiters # <<>> => inFlight = env.maxConcurrency
    /\ \A c \in Calls : call[c].pc = "queued" =>
          \E i \in DOMAIN waiters : waiters[i] = c

\* C36 witness: a caller has released its slot while another was queued, the
\* queued caller was admitted by that release, and a third is still waiting
\* with the gate full
C36_Witness ==
    /\ waiters # <<>>
    /\ inFlight = env.maxConcurrency
    /\ \E c \in Calls : call[c].pc = "done"
    /\ \E w \in Calls :
          /\ call[w].pc \in {"admitted", "running"}
          /\ \E i \in DOMAIN queueOrder : queueOrder[i] = w

\* a step of call c that starts at the await of a DeepSeek or Groq request
AdapterPending(c) == call[c].pc \in {"deepseek", "groq"}

\* C37: once admitted by the gate, and with every provider request eventually
\* answering or failing, the call terminates (returns or throws) for every
\* sequence of provider outcomes, after at most 4 x (number of Gemini model
\* candidates) Gemini attempts.  While a DeepSeek or Groq request is awaited
\* the call holds its slot and only that request's answer moves it: no timer
\* runs for it (only Gemini attempts have one).
C37_Termination ==
    /\ [](llmStats.geminiAttempts <= (MAX_RETRIES + 1) * Len(modelCandidates))
    /\ \A c \in {1} : (call[c].pc = "admitted") ~> (call[c].pc = "done")
    /\ [][\A c \in Calls : AdapterPending(c) =>
                /\ inFlight' = inFlight
                /\ call'[c].abandoned = call[c].abandoned
                /\ call'[c].seen.kind \in {"text", "reject"}]_vars

\* C37 witness: the call is over after the largest number of Gemini attempts,
\* four on every model candidate
C37_Witness ==
    \E c \in Calls :
        /\ call[c].pc = "done"
        /\ llmStats.geminiAttempts = (MAX_RETRIES + 1) * Len(modelCandidates)

\* the fallback providers entered so far (one call: the process-wide counters
\* are the call's own)
FallbackEntered == llmStats.deepseekAttempts + llmStats.groqAttempts

\* C38: within one generateQuiz call DeepSeek is entered at most once and
\* Groq at most once; once a fallback provider has been entered no further
\* Gemini attempt (and no backoff) is made in that call; and the call ends
\* from a fallback provider with that provider's quiz or with an error.
C38_FallbackOnce ==
    [][\A c \in Calls :
        /\ llmStats'.deepseekAttempts <= 1
        /\ llmStats'.groqAttempts <= 1
        /\ FallbackEntered >= 1 =>
              /\ llmStats'.geminiAttempts = llmStats.geminiAttempts
              /\ call'[c].pc \notin {"gemini", "sleep"}
              /\ call'[c].tries = call[c].tries
        /\ (AdapterPending(c) /\ call'[c].pc = "settled") =>
              \/ call'[c].result.status = "thrown"
              \/ /\ call'[c].result.status = "returned"
                 /\ call'[c].result.quiz = AdapterOutcome(call'[c].seen,
                        IF call[c].pc = "deepseek" THEN "DeepSeek" ELSE "Groq").quiz
                 /\ llmStats'.lastProvider = call[c].pc
    ]_vars

\* C38 witness: after Gemini attempts that failed, DeepSeek was entered and
\* failed, Groq was entered, and the call is over with Groq's quiz
C38_Witness ==
    \E c \in Calls :
        /\ call[c].pc = "done"
        /\ call[c].result.status = "returned"
        /\ llmStats.geminiFail >= 2
        /\ llmStats.deepseekAttempts = 1 /\ llmStats.deepseekFail = 1
        /\ llmStats.groqAttempts = 1 /\ llmStats.groqSuccess = 1

\* the counters of one provider
Attempts(st, p) ==
    CASE p = "gemini" -> st.geminiAttempts
      [] p = "deepseek" -> st.deepseekAttempts
      [] p = "groq" -> st.groqAttempts

Settled(st, p) ==
    CASE p = "gemini" -> st.geminiSuccess + st.geminiFail
      [] p = "deepseek" -> st.deepseekSuccess + st.deepseekFail
      [] p = "groq" -> st.groqSuccess + st.groqFail

\* the calls between the attempts++ of provider p and its success++ / fail++
InPass(p) == {c \in Calls : call[c].pc = p}

\* by how much success + fail, with the passes under way counted as settled,
\* is ahead of attempts
Drift(p) == Settled(llmStats, p) + Cardinality(InPass(p)) - Attempts(llmStats, p)

\* C39 as stated: for each provider success + fail <= attempts in every
\* reachable state, also when resetLlmStats runs while calls are between
\* their attempts increment and their success/fail increment.
C39_CounterConsistency ==
    \A p \in {"gemini", "deepseek", "groq"} :
        Settled(llmStats, p) <= Attempts(llmStats, p)

\* C39 amended: no step of a generateQuiz call changes, for any provider,
\* success + fail + (passes under way) - attempts, which is 0 at process
\* start; resetLlmStats zeroes every counter and so leaves it at the number
\* of passes under way, by which success + fail then gets ahead of attempts.
C39_CountersBetweenResets ==
    [][\A p \in {"gemini", "deepseek", "groq"} :
        /\ Drift(p)' \in 0 .. Cardinality(Calls)
        /\ IF call' = call
           THEN llmStats' = InitStats /\ Drift(p)' = Cardinality(InPass(p))
           ELSE Drift(p)' = Drift(p)
    ]_vars

\* C39 witness: the counters were reset while both calls awaited Gemini, and
\* both attempts have failed since: two failures of no attempt
C39_Witness ==
    /\ llmStats.geminiAttempts = 0
    /\ llmStats.geminiFail = 2
    /\ Drift("gemini") = 2

\* C40: whenever the difficulty-selection handler has set
\* session.isProcessing = true, the flag is false again by the time the
\* handler finishes, on every exit path (quiz delivered, no unique questions,
\* daily limit reached when sending the first question, missing user id,
\* generation error).
C40_FlagCleared ==
    \A c \in Calls :
        ( /\ call[c].pc = "done"
          /\ call[c].set
          /\ call[c].exit \in {"delivered", "noMoreUnique", "dailyLimit", "noUser", "error"} )
        => ~call[c].isProcessing

====
